---- MODULE Spec2Model ----
(***************************************************************************)
(* A model of ingestio's import pipeline (src/src/fileProcessor.js and its *)
(* caller in src/src/cli.js): directory scan, relationship grouping,       *)
(* target naming, collision probing and file transfer.                     *)
(*                                                                         *)
(* Strings are sequences of one-character strings, so that the path        *)
(* functions of the runtime (extname, basename, dirname, join) and the     *)
(* string operations of the code (toLowerCase, slice, replace, template    *)
(* literals) are computed character by character, as the code computes     *)
(* them.                                                                   *)
(***************************************************************************)
EXTENDS Integers, Sequences, FiniteSets, TLC

(***************************************************************************)
(* Strings                                                                 *)
(***************************************************************************)

UpperChars == <<"A","B","C","D","E","F","G","H","I","J","K","L","M",
                "N","O","P","Q","R","S","T","U","V","W","X","Y","Z">>

LowerChars == <<"a","b","c","d","e","f","g","h","i","j","k","l","m",
                "n","o","p","q","r","s","t","u","v","w","x","y","z">>

\* String.prototype.toLowerCase on one character
LowerChar(c) ==
  IF \E i \in 1..Len(UpperChars) : UpperChars[i] = c
    THEN LowerChars[CHOOSE i \in 1..Len(UpperChars) : UpperChars[i] = c]
    ELSE c

\* String.prototype.toLowerCase
ToLowerCase(s) == [i \in 1..Len(s) |-> LowerChar(s[i])]

\* s.slice(from, to) with 0-based from (inclusive) and to (exclusive)
Slice(s, from, to) == SubSeq(s, from + 1, to)

\* the 1-based positions of character c in s
Positions(s, c) == {i \in 1..Len(s) : s[i] = c}

Max(S) == CHOOSE x \in S : \A y \in S : y <= x

Min(S) == CHOOSE x \in S : \A y \in S : x <= y

\* s.startsWith(p)
StartsWith(s, p) == Len(p) <= Len(s) /\ SubSeq(s, 1, Len(p)) = p

\* s.endsWith(p)
EndsWith(s, p) ==
  Len(p) <= Len(s) /\ SubSeq(s, Len(s) - Len(p) + 1, Len(s)) = p

\* Array.prototype.includes on a sequence
Includes(arr, x) == \E i \in 1..Len(arr) : arr[i] = x

\* `${n}` for a non-negative integer n: its decimal digits
DigitChars == <<"0","1","2","3","4","5","6","7","8","9">>

RECURSIVE NumToString(_)
NumToString(n) ==
  IF n < 10 THEN <<DigitChars[n + 1]>>
  ELSE NumToString(n \div 10) \o <<DigitChars[(n % 10) + 1]>>

(***************************************************************************)
(* The runtime's POSIX path functions (import from 'path')                 *)
(***************************************************************************)

\* the 1-based end of the path with its trailing slashes dropped (0: none)
PathEnd(path) ==
  LET nonSlash == {i \in 1..Len(path) : path[i] # "/"}
  IN IF nonSlash = {} THEN 0 ELSE Max(nonSlash)

\* the 1-based start of the last portion of the path
PathStartPart(path) ==
  LET slashes == {i \in 1..PathEnd(path) : path[i] = "/"}
  IN IF slashes = {} THEN 1 ELSE Max(slashes) + 1

\* the last portion of the path, trailing slashes ignored
LastPortion(path) ==
  IF PathEnd(path) = 0 THEN <<>>
  ELSE SubSeq(path, PathStartPart(path), PathEnd(path))

\* path.extname: from the last '.' of the last portion to its end; empty when
\* there is no '.', when the only '.' is the first character, or for '..'
Extname(path) ==
  LET portion == LastPortion(path)
      dots == Positions(portion, ".")
  IN IF dots = {} \/ Max(dots) = 1 \/ portion = <<".", ".">> THEN <<>>
     ELSE SubSeq(portion, Max(dots), Len(portion))

\* path.basename(path)
Basename(path) == LastPortion(path)

\* path.basename(path, suffix)
BasenameExt(path, suffix) ==
  LET portion == LastPortion(path)
  IN IF suffix = <<>> \/ Len(suffix) > Len(path) THEN portion
     ELSE IF suffix = path THEN <<>>
     ELSE IF EndsWith(portion, suffix) /\ portion # suffix
       THEN SubSeq(portion, 1, Len(portion) - Len(suffix))
     ELSE portion

\* path.dirname
Dirname(path) ==
  LET hasRoot == Len(path) > 0 /\ path[1] = "/"
      slashes == {i \in 2..(PathEnd(path) - 1) : path[i] = "/"}
  IN IF Len(path) = 0 THEN <<".">>
     ELSE IF slashes = {} \/ PathEnd(path) = 0
       THEN (IF hasRoot THEN <<"/">> ELSE <<".">>)
     ELSE SubSeq(path, 1, Max(slashes) - 1)

\* the segments of a path between its slashes
RECURSIVE Segments(_)
Segments(path) ==
  LET slashes == Positions(path, "/")
  IN IF slashes = {} THEN <<path>>
     ELSE <<SubSeq(path, 1, Min(slashes) - 1)>>
            \o Segments(SubSeq(path, Min(slashes) + 1, Len(path)))

\* normalizeString: drops empty and '.' segments, resolves '..'
RECURSIVE NormalizeSegments(_, _, _)
NormalizeSegments(segs, res, allowAboveRoot) ==
  IF segs = <<>> THEN res
  ELSE LET seg == Head(segs)
           rest == Tail(segs)
       IN IF seg = <<>> \/ seg = <<".">>
            THEN NormalizeSegments(rest, res, allowAboveRoot)
          ELSE IF seg = <<".", ".">>
            THEN IF res # <<>> /\ res[Len(res)] # <<".", ".">>
                   THEN NormalizeSegments(rest, SubSeq(res, 1, Len(res) - 1), allowAboveRoot)
                 ELSE IF allowAboveRoot
                   THEN NormalizeSegments(rest, Append(res, seg), allowAboveRoot)
                 ELSE NormalizeSegments(rest, res, allowAboveRoot)
          ELSE NormalizeSegments(rest, Append(res, seg), allowAboveRoot)

\* segments joined by '/'
RECURSIVE JoinSegments(_)
JoinSegments(segs) ==
  IF segs = <<>> THEN <<>>
  ELSE IF Len(segs) = 1 THEN Head(segs)
  ELSE Head(segs) \o <<"/">> \o JoinSegments(Tail(segs))

\* path.normalize
Normalize(path) ==
  IF Len(path) = 0 THEN <<".">>
  ELSE LET isAbsolute == path[1] = "/"
           trailingSeparator == path[Len(path)] = "/"
           body == JoinSegments(NormalizeSegments(Segments(path), <<>>, ~isAbsolute))
       IN IF body = <<>>
            THEN (IF isAbsolute THEN <<"/">>
                  ELSE IF trailingSeparator THEN <<".", "/">> ELSE <<".">>)
          ELSE (IF isAbsolute THEN <<"/">> ELSE <<>>) \o body
                 \o (IF trailingSeparator THEN <<"/">> ELSE <<>>)

\* path.join(a, b): the non-empty arguments joined by '/', then normalized
Join(a, b) ==
  IF a = <<>> /\ b = <<>> THEN <<".">>
  ELSE IF a = <<>> THEN Normalize(b)
  ELSE IF b = <<>> THEN Normalize(a)
  ELSE Normalize(a \o <<"/">> \o b)

(***************************************************************************)
(* State                                                                   *)
(***************************************************************************)

VARIABLES
  pc,           \* the position of the running operation
  profile,      \* the validated profile the run uses
  tree,         \* source side: directory path -> its entries as readdir lists them
  unreadable,   \* directories whose readdir fails
  files,        \* scanFiles: the flat list the scan collected
  fileGroups,   \* scanFiles: the groups returned
  fsys,         \* the regular files that exist: path -> content
  dirs,         \* the directories that exist
  faults,       \* the filesystem errors the environment raises
  err,          \* the code of the error being thrown, "none" otherwise
  ops,          \* the filesystem calls made so far, in order
  grp,          \* processFileGroup: its arguments and locals
  fa,           \* findAvailableFilename: its arguments and locals
  pf,           \* processFile: its arguments and locals
  run,          \* runImport: its locals
  ed,           \* extractFileDate: its arguments and locals
  env,          \* the capture date of each source file, the zone of the process
  logger,       \* the Logger of the run: its report data
  fsys0         \* the files that existed when the operation began

varsScan == <<profile, tree, unreadable, files, fileGroups, env>>

varsFs == <<fsys, dirs, faults, fsys0>>

vars == <<pc, profile, tree, unreadable, files, fileGroups,
          fsys, dirs, faults, err, ops, grp, fa, pf, run, ed, env, logger,
          fsys0>>

(***************************************************************************)
(* scanFiles and groupRelatedFiles (src/src/fileProcessor.js)              *)
(***************************************************************************)

\* the files scan(dir) pushes, in push order; a failing readdir is caught by
\* the try of that call and leaves what other calls pushed
RECURSIVE ScanDir(_, _, _, _)
RECURSIVE ScanEntries(_, _, _, _, _)
\* a variant in which a directory that cannot be read ends the loop over the
\* entries of its parent
ScanEntriesAbortingOnFailure(t, bad, p, dir, entries) ==
  IF entries = <<>> THEN <<>>
  ELSE LET entry == Head(entries)
           fullPath == Join(dir, entry.name)
           ext == ToLowerCase(Extname(entry.name))
           found ==
             IF entry.kind = "dir"
               THEN IF ~Includes(p.excludeFolders, entry.name)
                      THEN ScanDir(t, bad, p, fullPath)
                      ELSE <<>>
             ELSE IF entry.kind = "file"
               THEN IF StartsWith(entry.name, <<".", "_">>) THEN <<>>
                    ELSE IF Includes(p.includeExtensions, ext)
                            /\ ~Includes(p.excludeExtensions, ext)
                      THEN <<fullPath>>
                    ELSE <<>>
             ELSE <<>>
       IN IF entry.kind = "dir" /\ fullPath \in bad
               /\ ~Includes(p.excludeFolders, entry.name)
            THEN <<>>
            ELSE found \o ScanEntries(t, bad, p, dir, Tail(entries))

\* a variant that filters by extension alone
ScanEntriesKeepingSidecars(t, bad, p, dir, entries) ==
  IF entries = <<>> THEN <<>>
  ELSE LET entry == Head(entries)
           fullPath == Join(dir, entry.name)
           ext == ToLowerCase(Extname(entry.name))
           found ==
             IF entry.kind = "dir"
               THEN IF ~Includes(p.excludeFolders, entry.name)
                      THEN ScanDir(t, bad, p, fullPath)
                      ELSE <<>>
             ELSE IF entry.kind = "file"
               THEN IF Includes(p.includeExtensions, ext)
                         /\ ~Includes(p.excludeExtensions, ext)
                      THEN <<fullPath>>
                    ELSE <<>>
             ELSE <<>>
       IN found \o ScanEntries(t, bad, p, dir, Tail(entries))

ScanDir(t, bad, p, dir) ==
  IF dir \in bad \/ dir \notin DOMAIN t THEN <<>>
  ELSE ScanEntries(t, bad, p, dir, t[dir])

ScanEntries(t, bad, p, dir, entries) ==
  IF entries = <<>> THEN <<>>
  ELSE LET entry == Head(entries)
           fullPath == Join(dir, entry.name)
           ext == ToLowerCase(Extname(entry.name))
           found ==
             IF entry.kind = "dir"
               THEN IF ~Includes(p.excludeFolders, entry.name)
                      THEN ScanDir(t, bad, p, fullPath)
                      ELSE <<>>
             ELSE IF entry.kind = "file"
               THEN IF StartsWith(entry.name, <<".", "_">>) THEN <<>>
                    ELSE IF Includes(p.includeExtensions, ext)
                            /\ ~Includes(p.excludeExtensions, ext)
                      THEN <<fullPath>>
                    ELSE <<>>
             ELSE <<>>
       IN found \o ScanEntries(t, bad, p, dir, Tail(entries))

\* the key groupRelatedFiles files a path under: join(dir, baseName), where
\* baseName is the filename with its lower-cased extension's length cut off
GroupKey(file) ==
  LET filename == Basename(file)
      ext == ToLowerCase(Extname(filename))
      baseName == Slice(filename, 0, Len(filename) - Len(ext))
      dir == Dirname(file)
  IN Join(dir, baseName)

\* the keys of the Map, in insertion order
RECURSIVE GroupKeys(_, _)
GroupKeys(fs, seen) ==
  IF fs = <<>> THEN seen
  ELSE GroupKeys(Tail(fs),
                 IF Includes(seen, GroupKey(Head(fs))) THEN seen
                 ELSE Append(seen, GroupKey(Head(fs))))

\* groups.get(groupKey): the files of one key, in list order
GroupFiles(fs, key) == SelectSeq(fs, LAMBDA f : GroupKey(f) = key)

IsPrimaryExt(file, primaryExtensions) ==
  Includes(primaryExtensions, ToLowerCase(Extname(file)))

IsCompanionExt(file, companionExtensions) ==
  Includes(companionExtensions, ToLowerCase(Extname(file)))

\* a variant that emits nothing for companions without a primary
StandaloneGroupsDropped(companionFiles) == <<>>

\* the groups pushed for one Map entry
RECURSIVE StandaloneGroups(_)
StandaloneGroups(companionFiles) ==
  IF companionFiles = <<>> THEN <<>>
  ELSE <<[files |-> <<Head(companionFiles)>>,
          primaryFile |-> Head(companionFiles),
          companionFiles |-> <<>>]>>
         \o StandaloneGroups(Tail(companionFiles))

\* a variant that hands the companions to the first primary only
PrimaryGroupsPartitioned(primaryFiles, companionFiles) ==
  [i \in 1..Len(primaryFiles) |->
     [files |-> <<primaryFiles[i]>> \o (IF i = 1 THEN companionFiles ELSE <<>>),
      primaryFile |-> primaryFiles[i],
      companionFiles |-> IF i = 1 THEN companionFiles ELSE <<>>]]

RECURSIVE PrimaryGroups(_, _)
PrimaryGroups(primaryFiles, companionFiles) ==
  IF primaryFiles = <<>> THEN <<>>
  ELSE <<[files |-> <<Head(primaryFiles)>> \o companionFiles,
          primaryFile |-> Head(primaryFiles),
          companionFiles |-> companionFiles]>>
         \o PrimaryGroups(Tail(primaryFiles), companionFiles)

KeyGroups(groupFiles, primaryExtensions, companionExtensions) ==
  LET primaryFiles ==
        SelectSeq(groupFiles, LAMBDA f : IsPrimaryExt(f, primaryExtensions))
      companionFiles ==
        SelectSeq(groupFiles, LAMBDA f : IsCompanionExt(f, companionExtensions))
  IN IF Len(primaryFiles) = 0 THEN StandaloneGroups(companionFiles)
     ELSE IF Len(primaryFiles) = 1
       THEN <<[files |-> <<primaryFiles[1]>> \o companionFiles,
               primaryFile |-> primaryFiles[1],
               companionFiles |-> companionFiles]>>
     ELSE PrimaryGroups(primaryFiles, companionFiles)

RECURSIVE GroupsOfKeys(_, _, _, _)
GroupsOfKeys(keys, fs, primaryExtensions, companionExtensions) ==
  IF keys = <<>> THEN <<>>
  ELSE KeyGroups(GroupFiles(fs, Head(keys)), primaryExtensions, companionExtensions)
         \o GroupsOfKeys(Tail(keys), fs, primaryExtensions, companionExtensions)

GroupRelatedFiles(fs, primaryExtensions, companionExtensions) ==
  GroupsOfKeys(GroupKeys(fs, <<>>), fs, primaryExtensions, companionExtensions)

\* files.map(file => ({files: [file], primaryFile: file, companionFiles: []}))
SingleFileGroups(fs) ==
  [i \in 1..Len(fs) |->
     [files |-> <<fs[i]>>, primaryFile |-> fs[i], companionFiles |-> <<>>]]

\* what scanFiles returns for the flat list fs
ScanResult(fs, p) ==
  IF p.maintainFileRelationships
    THEN GroupRelatedFiles(fs, p.primaryExtensions, p.companionExtensions)
    ELSE SingleFileGroups(fs)

(***************************************************************************)
(* The filesystem the transfer works on                                    *)
(***************************************************************************)

\* a frame that is not in use
NoFrame == [inUse |-> FALSE]

\* access: the paths fs.access fails on with EACCES; rename, copy, unlink:
\* the source paths that call fails on with an error of its own; mkdir:
\* whether creating the target directory fails; xdev: whether source and
\* destination are on different devices (rename fails with EXDEV)
NoFaults ==
  [access |-> {}, mkdir |-> FALSE, rename |-> {}, copy |-> {},
   unlink |-> {}, xdev |-> FALSE]

\* dates: source path -> the Date extractFileDate finds for it; tz: the
\* zone of the process, in hours east of UTC
NoEnv == [dates |-> <<>>, tz |-> 0]

\* the call a filesystem operation belongs to: the group of the run and the
\* file of the group, 0 where there is none
CallTag ==
  <<IF run.inUse THEN run.gi ELSE 0, IF grp.inUse THEN grp.i ELSE 0>>

\* what fs.access(path) sees
Exists(path) == path \in DOMAIN fsys \/ path \in dirs

\* the file map with one path removed
RemoveFile(f, path) == [q \in DOMAIN f \ {path} |-> f[q]]

\* the file map with one path written
WriteFile(f, path, content) ==
  [q \in DOMAIN f \cup {path} |-> IF q = path THEN content ELSE f[q]]

(***************************************************************************)
(* generateTargetPath (src/src/fileProcessor.js)                           *)
(***************************************************************************)

\* a Date is the number of seconds since 2025-07-05T00:00:00Z, a day of July
PadTwo(n) == IF n < 10 THEN <<"0">> \o NumToString(n) ELSE NumToString(n)

\* date.toISOString().split('T')[0]: the UTC date, YYYY-MM-DD
IsoDate(date) ==
  <<"2", "0", "2", "5", "-", "0", "7", "-">> \o PadTwo(5 + (date \div 86400))

\* date.toTimeString().split(' ')[0]: the time of day HH:MM:SS in the zone of
\* the process, tz hours east of UTC
LocalTime(date, tz) ==
  LET secs == (date + tz * 3600) % 86400
  IN PadTwo(secs \div 3600) \o <<":">> \o PadTwo((secs % 3600) \div 60)
       \o <<":">> \o PadTwo(secs % 60)

\* s.replace(/:/g, '-')
ColonsToDashes(s) == [i \in 1..Len(s) |-> IF s[i] = ":" THEN "-" ELSE s[i]]

\* s.indexOf(pat) + 1: the 1-based place of the first occurrence, 0 if none
IndexOf(s, pat) ==
  LET at == {i \in 1..(Len(s) - Len(pat) + 1) : SubSeq(s, i, i + Len(pat) - 1) = pat}
  IN IF at = {} THEN 0 ELSE Min(at)

\* the replacement text of String.prototype.replace with a string pattern:
\* $$ is a dollar, $& the match, $` the text before it, $' the text after it
RECURSIVE ExpandReplacement(_, _, _, _)
ExpandReplacement(rep, matched, before, after) ==
  IF rep = <<>> THEN <<>>
  ELSE IF rep[1] = "$" /\ Len(rep) >= 2 /\ rep[2] \in {"$", "&", "`", "'"}
    THEN (CASE rep[2] = "$" -> <<"$">>
            [] rep[2] = "&" -> matched
            [] rep[2] = "`" -> before
            [] rep[2] = "'" -> after)
           \o ExpandReplacement(SubSeq(rep, 3, Len(rep)), matched, before, after)
  ELSE <<rep[1]>> \o ExpandReplacement(Tail(rep), matched, before, after)

\* s.replace(pat, rep) with a string pattern: the first occurrence only
ReplaceFirst(s, pat, rep) ==
  LET at == IndexOf(s, pat)
      before == SubSeq(s, 1, at - 1)
      after == SubSeq(s, at + Len(pat), Len(s))
  IN IF at = 0 THEN s
     ELSE before \o ExpandReplacement(rep, pat, before, after) \o after

DatePlaceholder == <<"{", "d", "a", "t", "e", "}">>

TimePlaceholder == <<"{", "t", "i", "m", "e", "}">>

CameraPlaceholder == <<"{", "c", "a", "m", "e", "r", "a", "}">>

DefaultFilenameFormat ==
  DatePlaceholder \o <<"_">> \o TimePlaceholder \o <<"_">> \o CameraPlaceholder

\* a variant that names the directory by the date in the zone of the process
GenerateTargetPathLocalDate(date, tz, cameraLabel, originalPath, destinationRoot, filenameFormat) ==
  LET dateStr == IsoDate(date + tz * 3600)
      timeStr == ColonsToDashes(LocalTime(date, tz))
      ext == Extname(originalPath)
      targetDir == Join(destinationRoot, dateStr)
      baseFilename ==
        ReplaceFirst(ReplaceFirst(ReplaceFirst(filenameFormat,
                                               DatePlaceholder, dateStr),
                                  TimePlaceholder, timeStr),
                     CameraPlaceholder, cameraLabel) \o ext
  IN [targetDir |-> targetDir, baseFilename |-> baseFilename]

GenerateTargetPath(date, tz, cameraLabel, originalPath, destinationRoot, filenameFormat) ==
  LET dateStr == IsoDate(date)
      timeStr == ColonsToDashes(LocalTime(date, tz))
      ext == Extname(originalPath)
      targetDir == Join(destinationRoot, dateStr)
      baseFilename ==
        ReplaceFirst(ReplaceFirst(ReplaceFirst(filenameFormat,
                                               DatePlaceholder, dateStr),
                                  TimePlaceholder, timeStr),
                     CameraPlaceholder, cameraLabel) \o ext
  IN [targetDir |-> targetDir, baseFilename |-> baseFilename]

(***************************************************************************)
(* processFileGroup: naming (src/src/fileProcessor.js 236-255)             *)
(***************************************************************************)

\* the arguments of a call of processFileGroup
GroupCall(group, date, tz, cameraLabel, destinationRoot, onCollision, transferMode, filenameFormat) ==
  [inUse |-> TRUE, group |-> group, date |-> date, tz |-> tz,
   cameraLabel |-> cameraLabel, destinationRoot |-> destinationRoot,
   onCollision |-> onCollision, transferMode |-> transferMode,
   filenameFormat |-> filenameFormat,
   targetDir |-> <<>>, baseFilename |-> <<>>, baseFilenameWithoutExt |-> <<>>,
   i |-> 0, file |-> <<>>, groupFilename |-> <<>>, finalFilename |-> <<>>,
   results |-> <<>>]

\* lines 237-243: the target path of the primary file, and its name without
\* the extension
PfgEnter ==
  /\ pc = "pfg_enter"
  /\ LET target == GenerateTargetPath(grp.date, grp.tz, grp.cameraLabel,
                                      grp.group.primaryFile, grp.destinationRoot,
                                      grp.filenameFormat)
     IN grp' = [grp EXCEPT
                  !.targetDir = target.targetDir,
                  !.baseFilename = target.baseFilename,
                  !.baseFilenameWithoutExt =
                     BasenameExt(target.baseFilename, Extname(target.baseFilename)),
                  !.i = 1,
                  !.results = <<>>]
  /\ pc' = "pfg_loop"
  /\ UNCHANGED <<varsScan, logger, ed, run, varsFs, err, ops, fa, pf>>

\* `${baseFilenameWithoutExt}${ext}` for the file at hand
GroupFilename(g, file) == g.baseFilenameWithoutExt \o Extname(file)

\* lines 246-252: onCollision 'replace' takes the group filename as it is
PfgReplace ==
  /\ pc = "pfg_loop"
  /\ grp.i <= Len(grp.group.files)
  /\ grp.onCollision = "replace"
  /\ LET file == grp.group.files[grp.i]
     IN grp' = [grp EXCEPT !.file = file,
                           !.groupFilename = GroupFilename(grp, file),
                           !.finalFilename = GroupFilename(grp, file)]
  /\ pc' = "pf_enter"
  /\ UNCHANGED <<varsScan, logger, ed, run, varsFs, err, ops, fa, pf>>

\* the locals of findAvailableFilename(targetDir, baseFilename) at line 134
FindCall(targetDir, baseFilename) ==
  LET ext == Extname(baseFilename)
  IN [inUse |-> TRUE, targetDir |-> targetDir, baseFilename |-> baseFilename,
      ext |-> ext, nameWithoutExt |-> BasenameExt(baseFilename, ext),
      counter |-> 1, filename |-> baseFilename]

\* a variant that takes the group filename without probing
PfgRenameNoProbe ==
  /\ pc = "pfg_loop"
  /\ grp.i <= Len(grp.group.files)
  /\ grp.onCollision # "replace"
  /\ LET file == grp.group.files[grp.i]
     IN grp' = [grp EXCEPT !.file = file,
                           !.groupFilename = GroupFilename(grp, file),
                           !.finalFilename = GroupFilename(grp, file)]
  /\ pc' = "pf_enter"
  /\ UNCHANGED <<varsScan, logger, ed, run, varsFs, err, ops, fa, pf>>

\* lines 246-254: any other policy calls findAvailableFilename
PfgRename ==
  /\ pc = "pfg_loop"
  /\ grp.i <= Len(grp.group.files)
  /\ grp.onCollision # "replace"
  /\ LET file == grp.group.files[grp.i]
     IN /\ grp' = [grp EXCEPT !.file = file,
                              !.groupFilename = GroupFilename(grp, file)]
        /\ fa' = FindCall(grp.targetDir, GroupFilename(grp, file))
  /\ pc' = "fa_access"
  /\ UNCHANGED <<varsScan, logger, ed, run, varsFs, err, ops, pf>>

(***************************************************************************)
(* findAvailableFilename (src/src/fileProcessor.js 127-147)                *)
(***************************************************************************)

\* a variant that puts the counter after the extension
SuffixedNameAfterExt(nameWithoutExt, counter, ext) ==
  nameWithoutExt \o ext \o <<"_">> \o NumToString(counter)

\* `${nameWithoutExt}_${counter}${ext}`
SuffixedName(nameWithoutExt, counter, ext) ==
  nameWithoutExt \o <<"_">> \o NumToString(counter) \o ext

AccessOp(path, result) ==
  [op |-> "access", path |-> path, to |-> <<>>, result |-> result, call |-> CallTag]

\* fs.access succeeds: the name is taken, try the next counter
FaExists ==
  /\ pc = "fa_access"
  /\ LET fullPath == Join(fa.targetDir, fa.filename)
     IN /\ fullPath \notin faults.access
        /\ Exists(fullPath)
        /\ ops' = Append(ops, AccessOp(fullPath, "ok"))
  /\ fa' = [fa EXCEPT !.filename = SuffixedName(fa.nameWithoutExt, fa.counter, fa.ext),
                      !.counter = fa.counter + 1]
  /\ pc' = "fa_access"
  /\ UNCHANGED <<varsScan, logger, ed, run, varsFs, err, grp, pf>>

\* fs.access fails with ENOENT: the name is free and is returned
FaNotFound ==
  /\ pc = "fa_access"
  /\ LET fullPath == Join(fa.targetDir, fa.filename)
     IN /\ fullPath \notin faults.access
        /\ ~Exists(fullPath)
        /\ ops' = Append(ops, AccessOp(fullPath, "ENOENT"))
  /\ grp' = [grp EXCEPT !.finalFilename = fa.filename]
  /\ pc' = "pf_enter"
  /\ UNCHANGED <<varsScan, logger, ed, run, varsFs, err, fa, pf>>

\* a variant that takes a name whose probe failed for a free one
FaErrorTreatedAsFree ==
  /\ pc = "fa_access"
  /\ LET fullPath == Join(fa.targetDir, fa.filename)
     IN /\ fullPath \in faults.access
        /\ ops' = Append(ops, AccessOp(fullPath, "EACCES"))
  /\ grp' = [grp EXCEPT !.finalFilename = fa.filename]
  /\ pc' = "pf_enter"
  /\ UNCHANGED <<varsScan, logger, ed, run, varsFs, err, fa, pf>>

\* fs.access fails with another error: it is thrown
FaError ==
  /\ pc = "fa_access"
  /\ LET fullPath == Join(fa.targetDir, fa.filename)
     IN /\ fullPath \in faults.access
        /\ ops' = Append(ops, AccessOp(fullPath, "EACCES"))
  /\ err' = "EACCES"
  /\ pc' = "throw"
  /\ UNCHANGED <<varsScan, logger, ed, run, varsFs, grp, fa, pf>>

(***************************************************************************)
(* processFile (src/src/fileProcessor.js 149-172)                          *)
(***************************************************************************)

\* the arguments of processFile(sourcePath, targetDir, filename, copyFiles)
ProcessFileCall(sourcePath, targetDir, filename, copyFiles) ==
  [inUse |-> TRUE, sourcePath |-> sourcePath, targetDir |-> targetDir,
   filename |-> filename, copyFiles |-> copyFiles, targetPath |-> <<>>]

FsOp(op, path, to, result) ==
  [op |-> op, path |-> path, to |-> to, result |-> result, call |-> CallTag]

\* the directory and the directories above it
RECURSIVE WithParents(_)
WithParents(dir) ==
  IF Dirname(dir) = dir \/ Dirname(dir) = <<".">> THEN {dir}
  ELSE {dir} \cup WithParents(Dirname(dir))

\* line 150: fs.mkdir(targetDir, {recursive: true}); line 152: the target path
PfMkdir ==
  /\ pc = "pf_mkdir"
  /\ ~faults.mkdir
  /\ dirs' = dirs \cup WithParents(pf.targetDir)
  /\ ops' = Append(ops, FsOp("mkdir", pf.targetDir, <<>>, "ok"))
  /\ pf' = [pf EXCEPT !.targetPath = Join(pf.targetDir, pf.filename)]
  /\ pc' = IF pf.copyFiles THEN "pf_copy" ELSE "pf_rename"
  /\ UNCHANGED <<varsScan, logger, ed, run, fsys, faults, fsys0, err, grp, fa>>

PfMkdirFails ==
  /\ pc = "pf_mkdir"
  /\ faults.mkdir
  /\ ops' = Append(ops, FsOp("mkdir", pf.targetDir, <<>>, "EACCES"))
  /\ err' = "EACCES"
  /\ pc' = "throw"
  /\ UNCHANGED <<varsScan, logger, ed, run, varsFs, grp, fa, pf>>

\* the error of fs.copyFile(source, target), "ok" when it succeeds
CopyResult(source) ==
  IF source \notin DOMAIN fsys THEN "ENOENT"
  ELSE IF source \in faults.copy THEN "ENOSPC"
  ELSE "ok"

\* the files after a copy that failed: the target as it was when the copy
\* failed before opening it; otherwise removed, or left with part of the data
FailedCopyOutcomes(source, target) ==
  IF source \notin DOMAIN fsys THEN {fsys}
  ELSE {fsys, RemoveFile(fsys, target), WriteFile(fsys, target, "partial")}

\* the error of fs.rename(source, target), "ok" when it succeeds
RenameResult(source) ==
  IF source \notin DOMAIN fsys THEN "ENOENT"
  ELSE IF source \in faults.rename THEN "EACCES"
  ELSE IF faults.xdev THEN "EXDEV"
  ELSE "ok"

\* line 155: copy mode
PfCopy ==
  /\ pc = "pf_copy"
  /\ CopyResult(pf.sourcePath) = "ok"
  /\ fsys' = WriteFile(fsys, pf.targetPath, fsys[pf.sourcePath])
  /\ ops' = Append(ops, FsOp("copyFile", pf.sourcePath, pf.targetPath, "ok"))
  /\ pc' = "pf_return"
  /\ UNCHANGED <<varsScan, logger, ed, run, dirs, faults, fsys0, err, grp, fa, pf>>

\* a variant that rolls the group back: the targets of the files already
\* transferred are removed
PfCopyFailsRollsBack ==
  /\ pc = "pf_copy"
  /\ CopyResult(pf.sourcePath) # "ok"
  /\ fsys' = [q \in DOMAIN fsys \ (IF grp.inUse
                                      THEN {grp.results[k].targetPath :
                                              k \in 1..Len(grp.results)}
                                      ELSE {}) |-> fsys[q]]
  /\ ops' = Append(ops, FsOp("copyFile", pf.sourcePath, pf.targetPath,
                             CopyResult(pf.sourcePath)))
  /\ err' = CopyResult(pf.sourcePath)
  /\ pc' = "throw"
  /\ UNCHANGED <<varsScan, logger, ed, run, dirs, faults, fsys0, grp, fa, pf>>

\* line 155: the copy fails, the error is thrown
PfCopyFails ==
  /\ pc = "pf_copy"
  /\ CopyResult(pf.sourcePath) # "ok"
  /\ fsys' \in FailedCopyOutcomes(pf.sourcePath, pf.targetPath)
  /\ ops' = Append(ops, FsOp("copyFile", pf.sourcePath, pf.targetPath,
                             CopyResult(pf.sourcePath)))
  /\ err' = CopyResult(pf.sourcePath)
  /\ pc' = "throw"
  /\ UNCHANGED <<varsScan, logger, ed, run, dirs, faults, fsys0, grp, fa, pf>>

\* line 159: move mode, the rename succeeds
PfRename ==
  /\ pc = "pf_rename"
  /\ RenameResult(pf.sourcePath) = "ok"
  /\ fsys' = WriteFile(RemoveFile(fsys, pf.sourcePath), pf.targetPath,
                       fsys[pf.sourcePath])
  /\ ops' = Append(ops, FsOp("rename", pf.sourcePath, pf.targetPath, "ok"))
  /\ pc' = "pf_return"
  /\ UNCHANGED <<varsScan, logger, ed, run, dirs, faults, fsys0, err, grp, fa, pf>>

\* lines 160-162: the rename fails with EXDEV, the fallback is taken
PfRenameCrossDevice ==
  /\ pc = "pf_rename"
  /\ RenameResult(pf.sourcePath) = "EXDEV"
  /\ ops' = Append(ops, FsOp("rename", pf.sourcePath, pf.targetPath, "EXDEV"))
  /\ pc' = "pf_fallback_copy"
  /\ UNCHANGED <<varsScan, logger, ed, run, varsFs, err, grp, fa, pf>>

\* a variant that takes the fallback on every rename error
PfRenameFailsFallsBack ==
  /\ pc = "pf_rename"
  /\ RenameResult(pf.sourcePath) \notin {"ok", "EXDEV"}
  /\ ops' = Append(ops, FsOp("rename", pf.sourcePath, pf.targetPath,
                             RenameResult(pf.sourcePath)))
  /\ pc' = "pf_fallback_copy"
  /\ UNCHANGED <<varsScan, logger, ed, run, varsFs, err, grp, fa, pf>>

\* lines 165-167: the rename fails with another error, which is rethrown
PfRenameFails ==
  /\ pc = "pf_rename"
  /\ RenameResult(pf.sourcePath) \notin {"ok", "EXDEV"}
  /\ ops' = Append(ops, FsOp("rename", pf.sourcePath, pf.targetPath,
                             RenameResult(pf.sourcePath)))
  /\ err' = RenameResult(pf.sourcePath)
  /\ pc' = "throw"
  /\ UNCHANGED <<varsScan, logger, ed, run, varsFs, grp, fa, pf>>

\* line 163: the copy of the fallback
PfFallbackCopy ==
  /\ pc = "pf_fallback_copy"
  /\ CopyResult(pf.sourcePath) = "ok"
  /\ fsys' = WriteFile(fsys, pf.targetPath, fsys[pf.sourcePath])
  /\ ops' = Append(ops, FsOp("copyFile", pf.sourcePath, pf.targetPath, "ok"))
  /\ pc' = "pf_unlink"
  /\ UNCHANGED <<varsScan, logger, ed, run, dirs, faults, fsys0, err, grp, fa, pf>>

\* a variant that deletes the source although the copy failed
PfFallbackCopyFailsThenUnlinks ==
  /\ pc = "pf_fallback_copy"
  /\ CopyResult(pf.sourcePath) # "ok"
  /\ fsys' \in FailedCopyOutcomes(pf.sourcePath, pf.targetPath)
  /\ ops' = Append(ops, FsOp("copyFile", pf.sourcePath, pf.targetPath,
                             CopyResult(pf.sourcePath)))
  /\ pc' = "pf_unlink"
  /\ UNCHANGED <<varsScan, logger, ed, run, dirs, faults, fsys0, err, grp, fa, pf>>

\* line 163: the copy of the fallback fails, the error is thrown
PfFallbackCopyFails ==
  /\ pc = "pf_fallback_copy"
  /\ CopyResult(pf.sourcePath) # "ok"
  /\ fsys' \in FailedCopyOutcomes(pf.sourcePath, pf.targetPath)
  /\ ops' = Append(ops, FsOp("copyFile", pf.sourcePath, pf.targetPath,
                             CopyResult(pf.sourcePath)))
  /\ err' = CopyResult(pf.sourcePath)
  /\ pc' = "throw"
  /\ UNCHANGED <<varsScan, logger, ed, run, dirs, faults, fsys0, grp, fa, pf>>

\* a variant that leaves the source in place
PfUnlinkSkipped ==
  /\ pc = "pf_unlink"
  /\ ops' = Append(ops, FsOp("unlink", pf.sourcePath, <<>>, "ok"))
  /\ pc' = "pf_return"
  /\ UNCHANGED <<varsScan, logger, ed, run, varsFs, err, grp, fa, pf>>

\* line 164: the source is deleted after the copy
PfUnlink ==
  /\ pc = "pf_unlink"
  /\ pf.sourcePath \notin faults.unlink
  /\ fsys' = RemoveFile(fsys, pf.sourcePath)
  /\ ops' = Append(ops, FsOp("unlink", pf.sourcePath, <<>>, "ok"))
  /\ pc' = "pf_return"
  /\ UNCHANGED <<varsScan, logger, ed, run, dirs, faults, fsys0, err, grp, fa, pf>>

PfUnlinkFails ==
  /\ pc = "pf_unlink"
  /\ pf.sourcePath \in faults.unlink
  /\ ops' = Append(ops, FsOp("unlink", pf.sourcePath, <<>>, "EACCES"))
  /\ err' = "EACCES"
  /\ pc' = "throw"
  /\ UNCHANGED <<varsScan, logger, ed, run, varsFs, grp, fa, pf>>

ProcessFileSteps ==
  \/ PfMkdir
  \/ PfMkdirFails
  \/ PfCopy
  \/ PfCopyFails
  \/ PfRename
  \/ PfRenameCrossDevice
  \/ PfRenameFails
  \/ PfFallbackCopy
  \/ PfFallbackCopyFails
  \/ PfUnlink
  \/ PfUnlinkFails

(***************************************************************************)
(* processFileGroup: the transfer of each file (fileProcessor.js 257-265)  *)
(***************************************************************************)

\* line 257: processFile(file, targetDir, finalFilename, transferMode === 'copy')
PfgCallProcessFile ==
  /\ pc = "pf_enter"
  /\ run.inUse
  /\ pf' = ProcessFileCall(grp.file, grp.targetDir, grp.finalFilename,
                           grp.transferMode = "copy")
  /\ pc' = "pf_mkdir"
  /\ UNCHANGED <<varsScan, logger, ed, run, varsFs, err, ops, grp, fa>>

\* a variant that flags a file as companion by its place in the group
PfgPushFlagsByPlace ==
  /\ pc = "pf_return"
  /\ run.inUse
  /\ grp' = [grp EXCEPT
               !.results = Append(grp.results,
                  [sourcePath |-> grp.file,
                   targetPath |-> pf.targetPath,
                   isCompanion |-> grp.i > 1]),
               !.i = grp.i + 1]
  /\ pf' = NoFrame
  /\ pc' = "pfg_loop"
  /\ UNCHANGED <<varsScan, logger, ed, run, varsFs, err, ops, fa>>

\* lines 258-262: the result of the file is pushed, the loop goes on
PfgPush ==
  /\ pc = "pf_return"
  /\ run.inUse
  /\ grp' = [grp EXCEPT
               !.results = Append(grp.results,
                  [sourcePath |-> grp.file,
                   targetPath |-> pf.targetPath,
                   isCompanion |-> Includes(grp.group.companionFiles, grp.file)]),
               !.i = grp.i + 1]
  /\ pf' = NoFrame
  /\ pc' = "pfg_loop"
  /\ UNCHANGED <<varsScan, logger, ed, run, varsFs, err, ops, fa>>

\* line 265: every file of the group is done, the results are returned
PfgReturn ==
  /\ pc = "pfg_loop"
  /\ run.inUse
  /\ grp.i > Len(grp.group.files)
  /\ pc' = "run_results"
  /\ UNCHANGED <<varsScan, logger, ed, run, varsFs, err, ops, grp, fa, pf>>

(***************************************************************************)
(* Values of JavaScript that may be absent                                 *)
(***************************************************************************)

\* a field of the profile as it is loaded: absent (undefined) or given
Undefined == [given |-> FALSE]

Given(v) == [given |-> TRUE, value |-> v]

\* a field that is given as null (a YAML key without a value)
Null == [given |-> TRUE, isNull |-> TRUE]

\* the truthiness of a text field: an absent field, null and '' are falsy
TruthyText(x) == x.given /\ "value" \in DOMAIN x /\ x.value # <<>>

\* the truthiness of an option name: an absent option, null and '' are falsy
TruthyName(x) == x.given /\ "value" \in DOMAIN x /\ x.value # ""

\* the truthiness of a flag: an absent flag, null and false are falsy
TruthyFlag(x) == x.given /\ "value" \in DOMAIN x /\ x.value = TRUE

(***************************************************************************)
(* Logger (src/src/logger.js)                                              *)
(***************************************************************************)

\* lines 13-34: the constructor; the times and durations of the report data
\* are left out
NewLogger(level, reportFile) ==
  [inUse |-> TRUE,
   level |-> level,
   reportFile |-> reportFile,
   files |-> <<>>,
   summary |-> [totalFiles |-> 0, processedFiles |-> 0, errorFiles |-> 0,
                totalSize |-> 0, transferredSize |-> 0],
   errors |-> <<>>,
   saved |-> <<>>]

\* lines 87-96: error(message) adds to the errors of the report
LogError(l, message) == [l EXCEPT !.errors = Append(@, message)]

\* lines 109-112
StartFileProcessing(l, totalFiles) == [l EXCEPT !.summary.totalFiles = totalFiles]

\* lines 114-145: the entry is recorded; a success counts as processed and
\* adds its size, a failure counts as an error and is logged as one
LogFileTransfer(l, sourceFile, targetFile, operation, fileSize, success, isCompanion) ==
  LET transferData == [sourceFile |-> sourceFile, targetFile |-> targetFile,
                       operation |-> operation, fileSize |-> fileSize,
                       success |-> success, isCompanion |-> isCompanion]
      recorded == [l EXCEPT !.files = Append(@, transferData)]
  IN IF success
       THEN [recorded EXCEPT !.summary.processedFiles = @ + 1,
                             !.summary.transferredSize = @ + fileSize]
       ELSE LogError([recorded EXCEPT !.summary.errorFiles = @ + 1], "Failed to transfer")

\* lines 147-149
UpdateTotalSize(l, size) == [l EXCEPT !.summary.totalSize = @ + size]

\* lines 167-181 and 291-304: the report is saved only where the logger has
\* a report file, under that name
GenerateReport(l) ==
  IF TruthyName(l.reportFile)
    THEN [l EXCEPT !.saved = Append(@, IF TruthyName(l.reportFile)
                                         THEN l.reportFile.value
                                         ELSE "import-<timestamp>.txt")]
    ELSE l

\* the size fs.stat gives for a file
FileSize(path) == Len(fsys[path])

RECURSIVE LogResults(_, _, _)
\* cli.js 414-426: logFileTransfer for the results from the i-th on, each
\* with the size of its target
LogResults(l, results, i) ==
  IF i > Len(results) THEN l
  ELSE LogResults(LogFileTransfer(l, results[i].sourcePath, results[i].targetPath,
                                  profile.transferMode, FileSize(results[i].targetPath),
                                  TRUE, results[i].isCompanion),
                  results, i + 1)

RECURSIVE SizeOfFiles(_, _)
\* cli.js 380-390: the sizes of the files that fs.stat finds, summed
SizeOfFiles(paths, i) ==
  IF i > Len(paths) THEN 0
  ELSE (IF paths[i] \in DOMAIN fsys THEN FileSize(paths[i]) ELSE 0)
         + SizeOfFiles(paths, i + 1)

RECURSIVE FilesOfGroups(_, _)
\* the files of the groups from the i-th on, in order
FilesOfGroups(groups, i) ==
  IF i > Len(groups) THEN <<>>
  ELSE groups[i].files \o FilesOfGroups(groups, i + 1)

(***************************************************************************)
(* runImport (src/src/cli.js 350-458)                                      *)
(***************************************************************************)

\* lines 350-393: the scan; nothing found ends the run (without a report),
\* otherwise the logger is told the number and the size of the files found
\* and the counters start at zero
RunScan ==
  /\ pc = "run_scan"
  /\ files' = ScanDir(tree, unreadable, profile, profile.sourcePath)
  /\ fileGroups' = ScanResult(files', profile)
  /\ run' = [inUse |-> TRUE, gi |-> 1, processed |-> 0, errors |-> 0,
             transfers |-> <<>>]
  /\ logger' = IF Len(fileGroups') = 0 THEN logger
               ELSE LET found == FilesOfGroups(fileGroups', 1)
                    IN UpdateTotalSize(StartFileProcessing(logger, Len(found)),
                                       SizeOfFiles(found, 1))
  /\ pc' = IF Len(fileGroups') = 0 THEN "done" ELSE "run_loop"
  /\ UNCHANGED <<profile, tree, unreadable, env, ed, varsFs, err, ops, grp, fa, pf>>

\* lines 400-411: the date of the primary file, then processFileGroup is
\* called with it
RunExtractDate ==
  /\ pc = "run_loop"
  /\ run.gi <= Len(fileGroups)
  /\ LET group == fileGroups[run.gi]
     IN /\ group.primaryFile \in DOMAIN fsys
        /\ grp' = GroupCall(group, env.dates[group.primaryFile], env.tz,
                            profile.cameraLabel, profile.destinationRoot,
                            profile.onCollision, profile.transferMode,
                            profile.filenameFormat)
  /\ pc' = "pfg_enter"
  /\ UNCHANGED <<varsScan, logger, ed, run, varsFs, err, ops, fa, pf>>

\* line 400: the primary file is gone, every stage of extractFileDate fails
\* and the fs.stat of its last line throws
RunExtractDateFails ==
  /\ pc = "run_loop"
  /\ run.gi <= Len(fileGroups)
  /\ fileGroups[run.gi].primaryFile \notin DOMAIN fsys
  /\ err' = "ENOENT"
  /\ pc' = "throw"
  /\ UNCHANGED <<varsScan, logger, ed, run, varsFs, ops, grp, fa, pf>>

\* line 400: exifr finds no date in the primary file and exiftool cannot be
\* spawned; where the 'error' event of the child, which extractFileDate does
\* not listen to, is thrown as an uncaught exception, it passes the catch of
\* the loop and ends the process
RunExtractDateUncaught ==
  /\ pc = "run_loop"
  /\ run.gi <= Len(fileGroups)
  /\ profile.useExifDate
  /\ env.spawnFails
  /\ fileGroups[run.gi].primaryFile \notin env.embedded
  /\ err' = "spawn ENOENT"
  /\ pc' = "uncaught"
  /\ UNCHANGED <<varsScan, logger, ed, run, varsFs, ops, grp, fa, pf>>

\* line 429: profile.addGpsData && profile.gpsCoordinates; a profile
\* without the fields has them undefined
WantsGps(p) ==
  /\ "addGpsData" \in DOMAIN p
  /\ "gpsCoordinates" \in DOMAIN p
  /\ p.addGpsData = TRUE

\* line 433: writeGpsData(targetPath, latitude, longitude)
GpsOp(path, coordinates) ==
  [op |-> "writeGpsData", path |-> path, to |-> coordinates, result |-> "ok"]

\* lines 428-444: the GPS data is written to the target of every result
\* whose file holds none; the content of a target is that of its source
GpsWrites(results) ==
  IF WantsGps(profile)
    THEN LET need == SelectSeq(results, LAMBDA r : r.sourcePath \notin env.hasGps)
         IN [i \in 1..Len(need) |-> GpsOp(need[i].targetPath, profile.gpsCoordinates)]
    ELSE <<>>

\* lines 413-449: every result is logged and counted, and given the GPS
\* data where it is asked for; the targets were written by processFile just
\* before, their fs.stat succeeds
RunLogResults ==
  /\ pc = "run_results"
  /\ run' = [run EXCEPT !.processed = run.processed + Len(grp.results),
                        !.transfers = run.transfers \o grp.results,
                        !.gi = run.gi + 1]
  /\ grp' = NoFrame
  /\ fa' = NoFrame
  /\ pc' = "run_loop"
  /\ ops' = ops \o GpsWrites(grp.results)
  /\ logger' = LogResults(logger, grp.results, 1)
  /\ UNCHANGED <<varsScan, ed, varsFs, err, pf>>

\* lines 452-457: an error anywhere in the group is logged, the whole group
\* is counted as failed and as processed, the next group follows
RunCatch ==
  /\ pc = "throw"
  /\ run.inUse
  /\ LET group == fileGroups[run.gi]
     IN run' = [run EXCEPT !.errors = run.errors + Len(group.files),
                           !.processed = run.processed + Len(group.files),
                           !.gi = run.gi + 1]
  /\ err' = "none"
  /\ grp' = NoFrame
  /\ fa' = NoFrame
  /\ pf' = NoFrame
  /\ logger' = LogError(logger, "Error processing group")
  /\ pc' = "run_loop"
  /\ UNCHANGED <<varsScan, ed, varsFs, ops>>

\* lines 460-470: the loop is over, the summary is logged and the report is
\* generated
RunSummary ==
  /\ pc = "run_loop"
  /\ run.gi > Len(fileGroups)
  /\ logger' = GenerateReport(logger)
  /\ pc' = "done"
  /\ UNCHANGED <<varsScan, ed, run, varsFs, err, ops, grp, fa, pf>>

(***************************************************************************)
(* extractFileDate (src/src/fileProcessor.js 53-109)                       *)
(***************************************************************************)

\* a Date: valid with its time value, or an Invalid Date
ValidDate(t) == [valid |-> TRUE, time |-> t]

InvalidDate == [valid |-> FALSE, time |-> 0]

\* a value exifr gives for a field: absent; a Date or a string that parses;
\* a string that does not parse (exifr hands such a string on as it is)
NoField == [present |-> FALSE, parses |-> FALSE, time |-> 0]

DateField(t) == [present |-> TRUE, parses |-> TRUE, time |-> t]

TextField == [present |-> TRUE, parses |-> FALSE, time |-> 0]

\* new Date(value)
NewDate(value) == IF value.parses THEN ValidDate(value.time) ELSE InvalidDate

\* the arguments of extractFileDate(filePath, useExifDate)
DateCall(filePath, useExifDate) ==
  [inUse |-> TRUE, filePath |-> filePath, useExifDate |-> useExifDate,
   result |-> InvalidDate]

DateOp(op, result) ==
  [op |-> op, path |-> ed.filePath, to |-> <<>>, result |-> result, call |-> CallTag]

\* line 54: useExifDate decides between the metadata and the mtime
EdEnter ==
  /\ pc = "ed_enter"
  /\ pc' = IF ed.useExifDate THEN "ed_exifr" ELSE "ed_stat"
  /\ UNCHANGED <<varsScan, logger, ed, run, varsFs, err, ops, grp, fa, pf>>

\* lines 56-59: exifr.parse gives DateTimeOriginal, new Date of it is returned
EdExifrOriginal ==
  /\ pc = "ed_exifr"
  /\ env.exifr.outcome = "data"
  /\ env.exifr.DateTimeOriginal.present
  /\ ops' = Append(ops, DateOp("exifr.parse", "DateTimeOriginal"))
  /\ ed' = [ed EXCEPT !.result = NewDate(env.exifr.DateTimeOriginal)]
  /\ pc' = "ed_return"
  /\ UNCHANGED <<varsScan, logger, run, varsFs, err, grp, fa, pf>>

\* lines 60-62: no DateTimeOriginal, new Date of DateTime is returned
EdExifrDateTime ==
  /\ pc = "ed_exifr"
  /\ env.exifr.outcome = "data"
  /\ ~env.exifr.DateTimeOriginal.present
  /\ env.exifr.DateTime.present
  /\ ops' = Append(ops, DateOp("exifr.parse", "DateTime"))
  /\ ed' = [ed EXCEPT !.result = NewDate(env.exifr.DateTime)]
  /\ pc' = "ed_return"
  /\ UNCHANGED <<varsScan, logger, run, varsFs, err, grp, fa, pf>>

\* lines 56-62: exifr.parse gives nothing, or neither field
EdExifrNothing ==
  /\ pc = "ed_exifr"
  /\ \/ env.exifr.outcome = "undefined"
     \/ /\ env.exifr.outcome = "data"
        /\ ~env.exifr.DateTimeOriginal.present
        /\ ~env.exifr.DateTime.present
  /\ ops' = Append(ops, DateOp("exifr.parse", "nothing"))
  /\ pc' = "ed_exiftool"
  /\ UNCHANGED <<varsScan, logger, ed, run, varsFs, err, grp, fa, pf>>

\* lines 63-65: exifr.parse throws, the error is dropped
EdExifrThrows ==
  /\ pc = "ed_exifr"
  /\ env.exifr.outcome = "throws"
  /\ ops' = Append(ops, DateOp("exifr.parse", "error"))
  /\ pc' = "ed_exiftool"
  /\ UNCHANGED <<varsScan, logger, ed, run, varsFs, err, grp, fa, pf>>

\* lines 72-100: exiftool exits with 0 and prints a date that parses
EdExiftoolDate ==
  /\ pc = "ed_exiftool"
  /\ env.exiftool.outcome = "output"
  /\ env.exiftool.value.parses
  /\ ops' = Append(ops, DateOp("exiftool", "date"))
  /\ ed' = [ed EXCEPT !.result = NewDate(env.exiftool.value)]
  /\ pc' = "ed_return"
  /\ UNCHANGED <<varsScan, logger, run, varsFs, err, grp, fa, pf>>

\* lines 94-101: exiftool prints something new Date does not parse
EdExiftoolUnparseable ==
  /\ pc = "ed_exiftool"
  /\ env.exiftool.outcome = "output"
  /\ ~env.exiftool.value.parses
  /\ ops' = Append(ops, DateOp("exiftool", "unparseable"))
  /\ pc' = "ed_stat"
  /\ UNCHANGED <<varsScan, logger, ed, run, varsFs, err, grp, fa, pf>>

\* lines 85-91, 102-104: exiftool exits with another code, or prints
\* nothing; the promise is rejected and the error is dropped
EdExiftoolFails ==
  /\ pc = "ed_exiftool"
  /\ env.exiftool.outcome \in {"exit 1", "empty"}
  /\ ops' = Append(ops, DateOp("exiftool", env.exiftool.outcome))
  /\ pc' = "ed_stat"
  /\ UNCHANGED <<varsScan, logger, ed, run, varsFs, err, grp, fa, pf>>

\* line 73: exiftool cannot be spawned. The child emits 'error', for which
\* no listener is registered (lines 77-91 listen to 'data' and 'close'):
\* the event is thrown outside the promise as an uncaught exception, or,
\* where the runtime goes on to emit 'close' with a code other than 0, the
\* promise is rejected and the error is dropped
EdExiftoolSpawnFails ==
  /\ pc = "ed_exiftool"
  /\ env.exiftool.outcome = "spawn ENOENT"
  /\ ops' = Append(ops, DateOp("exiftool", "spawn ENOENT"))
  /\ \/ pc' = "uncaught" /\ err' = "spawn ENOENT"
     \/ pc' = "ed_stat" /\ err' = err
  /\ UNCHANGED <<varsScan, logger, ed, run, varsFs, grp, fa, pf>>

\* lines 72-92: exiftool is running and does not exit. The promise is
\* settled only by the listener of 'close' (lines 85-91); no timer is
\* started and the child is never killed, so the await of line 72 does
\* not return and no step of extractFileDate follows
EdExiftoolNeverExits ==
  /\ pc = "ed_exiftool"
  /\ env.exiftool.outcome = "never exits"
  /\ ops' = Append(ops, DateOp("exiftool", "never exits"))
  /\ pc' = "ed_await_close"
  /\ UNCHANGED <<varsScan, logger, ed, run, varsFs, err, grp, fa, pf>>

\* lines 107-108: the mtime of the file
EdStat ==
  /\ pc = "ed_stat"
  /\ env.stat.outcome = "stats"
  /\ ops' = Append(ops, DateOp("fs.stat", "mtime"))
  /\ ed' = [ed EXCEPT !.result = ValidDate(env.stat.mtime)]
  /\ pc' = "ed_return"
  /\ UNCHANGED <<varsScan, logger, run, varsFs, err, grp, fa, pf>>

\* line 107: fs.stat fails, the error goes to the caller
EdStatFails ==
  /\ pc = "ed_stat"
  /\ env.stat.outcome # "stats"
  /\ ops' = Append(ops, DateOp("fs.stat", env.stat.outcome))
  /\ err' = env.stat.outcome
  /\ pc' = "throw"
  /\ UNCHANGED <<varsScan, logger, ed, run, varsFs, grp, fa, pf>>

(***************************************************************************)
(* The calls of the date specification                                     *)
(***************************************************************************)

\* what exifr.parse may do with the file
ExifrOutcomes ==
  {[outcome |-> "throws", DateTimeOriginal |-> NoField, DateTime |-> NoField],
   [outcome |-> "undefined", DateTimeOriginal |-> NoField, DateTime |-> NoField]}
  \cup {[outcome |-> "data", DateTimeOriginal |-> o, DateTime |-> d] :
          o \in {NoField, DateField(1), TextField},
          d \in {NoField, DateField(2), TextField}}

\* what the exiftool subprocess may do
ExiftoolOutcomes ==
  {[outcome |-> o, value |-> NoField] : o \in {"spawn ENOENT", "exit 1", "empty", "never exits"}}
  \cup {[outcome |-> "output", value |-> v] : v \in {DateField(3), TextField}}

\* what fs.stat may do
StatOutcomes ==
  {[outcome |-> "stats", mtime |-> 4], [outcome |-> "ENOENT", mtime |-> 0]}

InitDate ==
  /\ pc = "ed_enter"
  /\ \E useExifDate \in BOOLEAN :
       ed = DateCall(<<"r", "/", "f", ".", "j">>, useExifDate)
  /\ \E x \in ExifrOutcomes, t \in ExiftoolOutcomes, st \in StatOutcomes :
       env = [dates |-> <<>>, tz |-> 0, exifr |-> x, exiftool |-> t, stat |-> st]
  /\ profile = <<>>
  /\ tree = <<>>
  /\ unreadable = {}
  /\ files = <<>>
  /\ fileGroups = <<>>
  /\ fsys = <<>>
  /\ dirs = {}
  /\ faults = NoFaults
  /\ err = "none"
  /\ ops = <<>>
  /\ grp = NoFrame
  /\ fa = NoFrame
  /\ pf = NoFrame
  /\ run = NoFrame
  /\ fsys0 = fsys
  /\ logger = NoFrame

NextDate ==
  \/ EdEnter
  \/ EdExifrOriginal
  \/ EdExifrDateTime
  \/ EdExifrNothing
  \/ EdExifrThrows
  \/ EdExiftoolDate
  \/ EdExiftoolUnparseable
  \/ EdExiftoolFails
  \/ EdExiftoolSpawnFails
  \/ EdExiftoolNeverExits
  \/ EdStat
  \/ EdStatFails

SpecDate == InitDate /\ [][NextDate]_vars

(***************************************************************************)
(* The calls of the transfer specification                                 *)
(***************************************************************************)

TransferSource == <<"r", "/", "f", ".", "j">>

TransferDir == <<"D", "/", "2", "0", "2", "5", "-", "0", "7", "-", "0", "5">>

TransferName == <<"t", ".", "j">>

FaultSets ==
  [access : {{}}, mkdir : BOOLEAN, rename : SUBSET {TransferSource},
   copy : SUBSET {TransferSource}, unlink : SUBSET {TransferSource},
   xdev : BOOLEAN]

InitTransfer ==
  /\ pc = "pf_mkdir"
  /\ \E copyFiles \in BOOLEAN, content \in {"c1", "c2"},
        sourceThere \in BOOLEAN, targetThere \in BOOLEAN :
       /\ pf = ProcessFileCall(TransferSource, TransferDir, TransferName, copyFiles)
       /\ fsys = [q \in (IF sourceThere THEN {TransferSource} ELSE {})
                          \cup (IF targetThere
                                  THEN {Join(TransferDir, TransferName)} ELSE {})
                    |-> IF q = TransferSource THEN content ELSE "old"]
       /\ dirs = IF targetThere THEN WithParents(TransferDir) ELSE {}
  /\ faults \in FaultSets
  /\ fsys0 = fsys
  /\ logger = NoFrame
  /\ profile = <<>>
  /\ tree = <<>>
  /\ unreadable = {}
  /\ files = <<>>
  /\ fileGroups = <<>>
  /\ err = "none"
  /\ ops = <<>>
  /\ grp = NoFrame
  /\ fa = NoFrame
  /\ run = NoFrame
  /\ ed = NoFrame
  /\ env = NoEnv

NextTransfer == ProcessFileSteps

SpecTransfer == InitTransfer /\ [][NextTransfer]_vars

(***************************************************************************)
(* The calls of the naming specification                                   *)
(***************************************************************************)

\* the most name_k.ext that exist before the call
MaxCollisions == 3

DestRoot == <<"D">>

\* source files: an extension, an upper-case one after a dotted stem, none
FindSources ==
  { <<"r", "/", "f", ".", "j">>, <<"r", "/", "f", ".", "t", ".", "J">>,
    <<"r", "/", "f">> }

\* camera labels: plain, with a dot, with a leading dot
FindLabels == { <<"t">>, <<"t", ".", "a">>, <<".", "h">> }

SingleGroup(file) == [files |-> <<file>>, primaryFile |-> file, companionFiles |-> <<>>]

\* the name processFileGroup asks for, and the names name_k.ext after it
WantedName(label, file) ==
  LET base == label \o Extname(file)
  IN BasenameExt(base, Extname(base)) \o Extname(file)

CandidateName(base, k) ==
  LET dots == Positions(base, ".")
      cut == IF dots = {} \/ Max(dots) = 1 THEN Len(base) + 1 ELSE Max(dots)
  IN IF k = 0 THEN base
     ELSE SubSeq(base, 1, cut - 1) \o <<"_">> \o NumToString(k)
            \o SubSeq(base, cut, Len(base))

InitFind ==
  /\ pc = "pfg_enter"
  /\ \E file \in FindSources, label \in FindLabels, policy \in {"rename", "replace"},
        present \in SUBSET (0..MaxCollisions),
        denied \in {d \in SUBSET (0..MaxCollisions) : Cardinality(d) <= 1} :
       LET dir == Join(DestRoot, IsoDate(0))
           path(k) == Join(dir, CandidateName(WantedName(label, file), k))
       IN /\ grp = GroupCall(SingleGroup(file), 0, 0, label, DestRoot, policy,
                             "copy", CameraPlaceholder)
          /\ fsys = [q \in {path(k) : k \in present} |-> "old"]
          /\ dirs = IF present = {} THEN {} ELSE {DestRoot, dir}
          /\ faults = [NoFaults EXCEPT !.access = {path(k) : k \in denied}]
  /\ profile = <<>>
  /\ tree = <<>>
  /\ unreadable = {}
  /\ files = <<>>
  /\ fileGroups = <<>>
  /\ err = "none"
  /\ ops = <<>>
  /\ fa = NoFrame
  /\ pf = NoFrame
  /\ run = NoFrame
  /\ ed = NoFrame
  /\ env = NoEnv
  /\ fsys0 = fsys
  /\ logger = NoFrame

NextFind ==
  \/ PfgEnter
  \/ PfgReplace
  \/ PfgRename
  \/ FaExists
  \/ FaNotFound
  \/ FaError

SpecFind == InitFind /\ [][NextFind]_vars

(***************************************************************************)
(* The calls of the planning specification                                 *)
(***************************************************************************)

\* instants, in seconds after 2025-07-05T00:00:00Z: midnight, 12:12:54, the
\* last second of the day, 01:00:00 of the next day
PlanDates == {0, 43974, 86399, 90000}

\* zones, in hours east of UTC
PlanZones == {-5, 0, 2}

\* camera labels: plain, and with the patterns $$ and $& in them
PlanLabels == { <<"C">>, <<"a", "$", "$", "b">>, <<"$", "&">> }

\* source files: an upper-case extension, a lower-case one, none
PlanSources ==
  { <<"r", "/", "f", ".", "M">>, <<"r", "/", "f", ".", "j">>, <<"r", "/", "f">> }

\* templates: the default, another order, a placeholder twice, the camera
\* twice, no placeholder
PlanTemplates ==
  { DefaultFilenameFormat,
    TimePlaceholder \o <<"_">> \o CameraPlaceholder \o <<"_">> \o DatePlaceholder,
    DatePlaceholder \o <<"_">> \o DatePlaceholder,
    CameraPlaceholder \o TimePlaceholder \o CameraPlaceholder \o TimePlaceholder,
    <<"x">> }

PlanRoots == { <<"D">>, <<"/", "t">> }

InitPlan ==
  /\ pc = "pfg_enter"
  /\ \E date \in PlanDates, tz \in PlanZones, label \in PlanLabels,
        file \in PlanSources, template \in PlanTemplates, root \in PlanRoots :
       grp = GroupCall(SingleGroup(file), date, tz, label, root, "rename",
                       "copy", template)
  /\ profile = <<>>
  /\ tree = <<>>
  /\ unreadable = {}
  /\ files = <<>>
  /\ fileGroups = <<>>
  /\ fsys = <<>>
  /\ dirs = {}
  /\ faults = NoFaults
  /\ err = "none"
  /\ ops = <<>>
  /\ fa = NoFrame
  /\ pf = NoFrame
  /\ run = NoFrame
  /\ ed = NoFrame
  /\ env = NoEnv
  /\ fsys0 = fsys
  /\ logger = NoFrame

NextPlan == PfgEnter

SpecPlan == InitPlan /\ [][NextPlan]_vars

(***************************************************************************)
(* The scanned trees and profiles of the scan specification                *)
(***************************************************************************)

\* the most entries of the scanned media directory
MaxDirFiles == 3

SourceRoot == <<"r">>

MediaDir == <<"r", "/", "d">>

OtherDir == <<"r", "/", "x">>

\* a directory inside the other directory
NestedDir == <<"r", "/", "x", "/", "n">>

\* names of the media directory: two primaries of one stem, their companion,
\* a lone companion with an upper-case extension, two names whose stem is '.',
\* a name of an excluded extension and a name that begins with '._'
DirNames ==
  { <<"a", ".", "M">>, <<"a", ".", "v">>, <<"a", ".", "s">>,
    <<"b", ".", "S">>, <<".", ".", "M">>, <<".", ".", "s">>,
    <<"a", ".", "x">>, <<".", "_", "a", ".", "M">> }

FileEntry(n) == [name |-> n, kind |-> "file"]

DirEntry(n) == [name |-> n, kind |-> "dir"]

\* the listings of the root: the media directory alone, beside a file whose
\* name is the directory's name plus an extension, or beside a second
\* directory, which may stand between a file and the media directory
RootListings ==
  { <<DirEntry(<<"d">>)>>,
    <<FileEntry(<<"d", ".", "s">>), DirEntry(<<"d">>)>>,
    <<DirEntry(<<"d">>), FileEntry(<<"d", ".", "M">>)>>,
    <<DirEntry(<<"x">>), DirEntry(<<"d">>)>>,
    <<FileEntry(<<"e", ".", "M">>), DirEntry(<<"x">>), DirEntry(<<"d">>)>> }

\* sequences of distinct names, at most n long
RECURSIVE DistinctSeqs(_, _)
DistinctSeqs(S, n) ==
  IF n = 0 THEN {<<>>}
  ELSE LET shorter == DistinctSeqs(S, n - 1)
           longer == {Append(q, x) : q \in shorter, x \in S}
       IN {q \in shorter \cup longer :
             \A i, j \in 1..Len(q) : i < j => q[i] # q[j]}

Trees ==
  { [d \in {SourceRoot, MediaDir, OtherDir, NestedDir} |->
       IF d = SourceRoot THEN root
       ELSE IF d = MediaDir THEN [i \in 1..Len(names) |-> FileEntry(names[i])]
       ELSE IF d = OtherDir
         THEN <<FileEntry(<<"a", ".", "M">>), DirEntry(<<"n">>),
                FileEntry(<<"a", ".", "s">>)>>
       ELSE <<FileEntry(<<"c", ".", "M">>)>>] :
      root \in RootListings, names \in DistinctSeqs(DirNames, MaxDirFiles) }

ExtensionLists ==
  { [primaryExtensions |-> <<<<".", "m">>, <<".", "v">>>>,
     companionExtensions |-> <<<<".", "s">>>>],
    [primaryExtensions |-> <<<<".", "m">>>>,
     companionExtensions |-> <<<<".", "s">>>>],
    [primaryExtensions |-> <<<<".", "m">>, <<".", "s">>>>,
     companionExtensions |-> <<<<".", "s">>>>] }

ScanProfiles ==
  { [includeExtensions |-> <<<<".", "m">>, <<".", "s">>, <<".", "v">>, <<".", "x">>>>,
     excludeExtensions |-> <<<<".", "x">>>>,
     excludeFolders |-> xf,
     maintainFileRelationships |-> m,
     primaryExtensions |-> e.primaryExtensions,
     companionExtensions |-> e.companionExtensions] :
      xf \in {<<>>, <<<<"x">>>>}, m \in BOOLEAN, e \in ExtensionLists }

\* a directory some listing of the tree names
ListedIn(t, dir) ==
  \E parent \in DOMAIN t : \E i \in 1..Len(t[parent]) :
    t[parent][i].kind = "dir" /\ Join(parent, t[parent][i].name) = dir

\* a folder is excluded and a directory is unreadable only where the root
\* lists the other directory; read failures and the root of three entries
\* are tried with at most one file in the media directory
InitScan ==
  /\ pc = "scan"
  /\ profile \in ScanProfiles
  /\ tree \in Trees
  /\ unreadable \in {u \in SUBSET {OtherDir, NestedDir} :
                        \A d \in u : ListedIn(tree, d)}
  /\ profile.excludeFolders = <<>> \/ ListedIn(tree, OtherDir)
  /\ unreadable = {} \/ (ListedIn(tree, OtherDir) /\ Len(tree[MediaDir]) <= 1)
  /\ Len(tree[SourceRoot]) <= 2 \/ Len(tree[MediaDir]) <= 1
  /\ files = <<>>
  /\ fileGroups = <<>>
  /\ fsys = <<>>
  /\ dirs = {}
  /\ faults = NoFaults
  /\ err = "none"
  /\ ops = <<>>
  /\ grp = NoFrame
  /\ fa = NoFrame
  /\ pf = NoFrame
  /\ run = NoFrame
  /\ ed = NoFrame
  /\ env = NoEnv
  /\ fsys0 = fsys
  /\ logger = NoFrame

\* scanFiles(sourcePath, ...): the recursive scan, then the grouping
ScanFiles ==
  /\ pc = "scan"
  /\ files' = ScanDir(tree, unreadable, profile, SourceRoot)
  /\ fileGroups' = ScanResult(files', profile)
  /\ pc' = "scanned"
  /\ UNCHANGED <<profile, tree, unreadable, env, logger, ed, varsFs, err, ops, grp, fa, pf, run>>

NextScan == ScanFiles

SpecScan == InitScan /\ [][NextScan]_vars

(***************************************************************************)
(* Properties of the grouping (C7 - C10)                                   *)
(***************************************************************************)

Scanned == pc = "scanned"

Grouped == pc = "scanned" /\ profile.maintainFileRelationships

\* the key the specification names: the containing directory and the
\* filename with its extension stripped, as a pair
DirStemKey(file) ==
  LET filename == Basename(file)
  IN <<Dirname(file), SubSeq(filename, 1, Len(filename) - Len(Extname(filename)))>>

ScannedSet == {files[i] : i \in 1..Len(files)}

DirStemKeys == {DirStemKey(f) : f \in ScannedSet}

PrimariesOfKey(key) ==
  {f \in ScannedSet : DirStemKey(f) = key /\ IsPrimaryExt(f, profile.primaryExtensions)}

\* the companion-classified files of a key, in scan order
CompanionsOfKey(key) ==
  SelectSeq(files, LAMBDA f : DirStemKey(f) = key
                               /\ IsCompanionExt(f, profile.companionExtensions))

GroupsOfDirStemKey(key) ==
  {i \in 1..Len(fileGroups) : DirStemKey(fileGroups[i].primaryFile) = key}

\* C7: a key (directory, filename without extension) with exactly one
\* primary-classified file yields exactly one group, whose primaryFile is that
\* file, whose companionFiles are the companion-classified files of the key
\* and whose files are the primary followed by them; and no group mixes files
\* of different directories or stems.
C7_OnePrimaryOneGroup ==
  Grouped =>
    /\ \A key \in DirStemKeys :
         Cardinality(PrimariesOfKey(key)) = 1 =>
           /\ Cardinality(GroupsOfDirStemKey(key)) = 1
           /\ \A i \in GroupsOfDirStemKey(key) :
                /\ fileGroups[i].primaryFile \in PrimariesOfKey(key)
                /\ fileGroups[i].companionFiles = CompanionsOfKey(key)
                /\ fileGroups[i].files
                     = <<fileGroups[i].primaryFile>> \o CompanionsOfKey(key)
    /\ \A i \in 1..Len(fileGroups) :
         \A j \in 1..Len(fileGroups[i].files) :
           DirStemKey(fileGroups[i].files[j]) = DirStemKey(fileGroups[i].primaryFile)

\* the same statement for the files whose stem is neither '.' nor '..': the
\* keys join(dir, stem) of such files are distinct exactly when the pairs are
PlainStems ==
  \A f \in ScannedSet : DirStemKey(f)[2] \notin {<<".">>, <<".", ".">>}

C7_HoldsForPlainStems == PlainStems => C7_OnePrimaryOneGroup

IsSingletonOf(g, f) ==
  g = [files |-> <<f>>, primaryFile |-> f, companionFiles |-> <<>>]

\* C8: in a key with no primary-classified file every companion-classified
\* file becomes its own singleton group (primaryFile = itself, no companions,
\* files = [itself]), and is in no other group.
C8_CompanionsWithoutPrimaryStandAlone ==
  Grouped =>
    \A key \in DirStemKeys :
      PrimariesOfKey(key) = {} =>
        \A c \in 1..Len(CompanionsOfKey(key)) :
          LET f == CompanionsOfKey(key)[c]
          IN /\ \E i \in 1..Len(fileGroups) : IsSingletonOf(fileGroups[i], f)
             /\ \A i \in 1..Len(fileGroups) :
                  Includes(fileGroups[i].files, f) => IsSingletonOf(fileGroups[i], f)

C8_HoldsForPlainStems == PlainStems => C8_CompanionsWithoutPrimaryStandAlone

\* C9: a key with k >= 2 primary-classified files yields exactly k groups, one
\* per primary, and every companion-classified file of the key is a companion
\* of every one of them.
C9_FanOut ==
  Grouped =>
    \A key \in DirStemKeys :
      Cardinality(PrimariesOfKey(key)) >= 2 =>
        /\ Cardinality(GroupsOfDirStemKey(key)) = Cardinality(PrimariesOfKey(key))
        /\ \A p \in PrimariesOfKey(key) :
             Cardinality({i \in 1..Len(fileGroups) : fileGroups[i].primaryFile = p}) = 1
        /\ \A i \in GroupsOfDirStemKey(key) :
             /\ \A c \in 1..Len(CompanionsOfKey(key)) :
                  Includes(fileGroups[i].companionFiles, CompanionsOfKey(key)[c])
             /\ fileGroups[i].files
                  = <<fileGroups[i].primaryFile>> \o fileGroups[i].companionFiles

C9_Witness ==
  /\ Grouped
  /\ \E key \in DirStemKeys :
       /\ Cardinality(PrimariesOfKey(key)) = 2
       /\ Len(CompanionsOfKey(key)) = 1
       /\ Cardinality({i \in 1..Len(fileGroups) :
                         Includes(fileGroups[i].companionFiles, CompanionsOfKey(key)[1])}) = 2

\* how often a path occurs in the files of all returned groups
RECURSIVE CountIn(_, _)
CountIn(seq, f) ==
  IF seq = <<>> THEN 0
  ELSE (IF Head(seq) = f THEN 1 ELSE 0) + CountIn(Tail(seq), f)

RECURSIVE Occurrences(_, _)
Occurrences(groups, f) ==
  IF groups = <<>> THEN 0
  ELSE CountIn(Head(groups).files, f) + Occurrences(Tail(groups), f)

PrimariesSharingKey(f) ==
  {g \in ScannedSet : GroupKey(g) = GroupKey(f)
                       /\ IsPrimaryExt(g, profile.primaryExtensions)}

RECURSIVE TreeFiles(_, _, _, _)
TreeFiles(t, dir, names, passed) ==
  IF dir \notin DOMAIN t THEN {}
  ELSE {[path |-> Join(dir, t[dir][i].name), name |-> t[dir][i].name,
         below |-> names, dirs |-> passed] :
          i \in {k \in 1..Len(t[dir]) : t[dir][k].kind = "file"}}
       \cup UNION {TreeFiles(t, Join(dir, t[dir][i].name),
                             names \cup {t[dir][i].name},
                             passed \cup {Join(dir, t[dir][i].name)}) :
                     i \in {k \in 1..Len(t[dir]) : t[dir][k].kind = "dir"}}

SeqRange(seq) == {seq[i] : i \in 1..Len(seq)}

\* conditions (a), (b), (c) of a file of the tree
QualifiesForScan(f) ==
  /\ f.below \cap SeqRange(profile.excludeFolders) = {}
  /\ ~StartsWith(f.name, <<".", "_">>)
  /\ ToLowerCase(Extname(f.name)) \in SeqRange(profile.includeExtensions)
  /\ ToLowerCase(Extname(f.name)) \notin SeqRange(profile.excludeExtensions)

\* C11: with every directory readable, a file is in the scan result if and
\* only if no directory on its path below the root is named in excludeFolders,
\* its name does not begin with '._', and its lower-cased extension is in
\* includeExtensions and not in excludeExtensions; it is listed once.
C11_ScanResultIsTheQualifyingFiles ==
  (Scanned /\ unreadable = {}) =>
    LET qualifying == {f \in TreeFiles(tree, SourceRoot, {}, {}) : QualifiesForScan(f)}
    IN /\ ScannedSet = {f.path : f \in qualifying}
       /\ Len(files) = Cardinality(ScannedSet)

\* a scan that met a '._' name of an included extension, a name of an
\* excluded extension, a file below an excluded folder in a directory that is
\* not itself excluded, and collected something
C11_Witness ==
  /\ Scanned
  /\ unreadable = {}
  /\ files # <<>>
  /\ \E f \in TreeFiles(tree, SourceRoot, {}, {}) :
       /\ StartsWith(f.name, <<".", "_">>)
       /\ ToLowerCase(Extname(f.name)) \in SeqRange(profile.includeExtensions)
       /\ f.path \notin ScannedSet
  /\ \E f \in TreeFiles(tree, SourceRoot, {}, {}) :
       /\ ToLowerCase(Extname(f.name)) \in SeqRange(profile.excludeExtensions)
       /\ f.path \notin ScannedSet
  /\ \E f \in TreeFiles(tree, SourceRoot, {}, {}) :
       /\ Basename(Dirname(f.path)) \notin SeqRange(profile.excludeFolders)
       /\ f.below \cap SeqRange(profile.excludeFolders) # {}
       /\ f.path \notin ScannedSet

\* C12: a directory that cannot be read does not make scanFiles throw, and
\* the result still holds every qualifying file that is not below such a
\* directory: those of sibling directories and those listed before and
\* after it in its parent.
C12_ReadFailureIsNotFatal ==
  Scanned =>
    /\ err = "none"
    /\ ScannedSet =
         {f.path : f \in {g \in TreeFiles(tree, SourceRoot, {}, {}) :
                             QualifiesForScan(g) /\ g.dirs \cap unreadable = {}}}

\* the nested directory could not be read: its file is missing, the files
\* listed before and after it in its parent, the file listed before the
\* parent and a file of the sibling listed after the parent are there
C12_Witness ==
  /\ Scanned
  /\ unreadable = {NestedDir}
  /\ \E g \in TreeFiles(tree, SourceRoot, {}, {}) :
       QualifiesForScan(g) /\ NestedDir \in g.dirs /\ g.path \notin ScannedSet
  /\ Join(OtherDir, <<"a", ".", "M">>) \in ScannedSet
  /\ Join(OtherDir, <<"a", ".", "s">>) \in ScannedSet
  /\ Join(SourceRoot, <<"e", ".", "M">>) \in ScannedSet
  /\ \E f \in ScannedSet : Dirname(f) = MediaDir

(***************************************************************************)
(* Properties of the collision resolver (C3)                               *)
(***************************************************************************)

\* the candidates name.ext (k = 0) and name_k.ext whose path does not exist
FreeCandidates(dir, base) ==
  {k \in 0..Cardinality(DOMAIN fsys \cup dirs) :
     ~Exists(Join(dir, CandidateName(base, k)))}

\* C3: findAvailableFilename(dir, name.ext) returns name.ext when that path
\* does not exist and otherwise name_k.ext for the smallest k >= 1 whose path
\* does not exist, the counter standing before the last extension segment;
\* under 'replace' the wanted filename is used unchanged and nothing is probed.
C3_SmallestFreeName ==
  /\ (pc = "pf_enter" /\ fa.inUse) =>
       grp.finalFilename
         = CandidateName(fa.baseFilename, Min(FreeCandidates(fa.targetDir, fa.baseFilename)))
  /\ (pc = "pf_enter" /\ grp.onCollision = "replace") =>
       /\ grp.finalFilename = grp.groupFilename
       /\ ~fa.inUse
       /\ ops = <<>>

\* name.ext, name_1.ext, ..., name_(N-1).ext exist, N the most the model
\* lets exist, the name has two dots, and name_N.ext is returned
C3_Witness ==
  /\ pc = "pf_enter"
  /\ fa.inUse
  /\ fa.baseFilename = <<"t", ".", "a", ".", "j">>
  /\ \A k \in 0..MaxCollisions : Exists(Join(fa.targetDir, CandidateName(fa.baseFilename, k)))
  /\ grp.finalFilename
       = <<"t", ".", "a", "_">> \o NumToString(MaxCollisions + 1) \o <<".", "j">>

(***************************************************************************)
(* Properties of the transfer (C5, C6)                                     *)
(***************************************************************************)

OpsOf(kind) == {i \in 1..Len(ops) : ops[i].op = kind}

\* C5: when processFile returns, the target holds the bytes the source had;
\* in copy mode the source is still there with the same bytes, in move mode it
\* is gone, whether the rename succeeded or the cross-device fallback ran; the
\* path returned is targetDir/filename.
C5_TransferPostcondition ==
  pc = "pf_return" =>
    /\ pf.sourcePath \in DOMAIN fsys0
    /\ pf.targetPath \in DOMAIN fsys
    /\ fsys[pf.targetPath] = fsys0[pf.sourcePath]
    /\ pf.copyFiles =>
         pf.sourcePath \in DOMAIN fsys /\ fsys[pf.sourcePath] = fsys0[pf.sourcePath]
    /\ ~pf.copyFiles => pf.sourcePath \notin DOMAIN fsys
    /\ pf.targetPath = pf.targetDir \o <<"/">> \o pf.filename

\* a move across devices that returned: rename failed with EXDEV, the copy
\* and the unlink ran, and the target had existed with other bytes
C5_Witness ==
  /\ pc = "pf_return"
  /\ ~pf.copyFiles
  /\ \E i \in OpsOf("rename") : ops[i].result = "EXDEV"
  /\ OpsOf("unlink") # {}
  /\ pf.targetPath \in DOMAIN fsys0
  /\ fsys[pf.targetPath] = "c2"

\* C6: in move mode the copy-then-delete fallback is taken if and only if the
\* rename failed with EXDEV; any other rename error is rethrown unchanged with
\* no copy and no unlink made, the source and the target left as they were.
C6_FallbackOnlyOnCrossDevice ==
  (pf.inUse /\ ~pf.copyFiles) =>
    /\ \A i \in OpsOf("rename") :
         /\ ops[i].result = "EXDEV" =>
              \/ pc = "pf_fallback_copy" /\ i = Len(ops)
              \/ OpsOf("copyFile") # {}
         /\ ops[i].result \notin {"ok", "EXDEV"} =>
              /\ pc = "throw"
              /\ err = ops[i].result
              /\ OpsOf("copyFile") = {}
              /\ OpsOf("unlink") = {}
              /\ fsys = fsys0
    /\ (OpsOf("copyFile") # {} \/ OpsOf("unlink") # {} \/ pc \in {"pf_fallback_copy", "pf_unlink"}) =>
         \E i \in OpsOf("rename") : ops[i].result = "EXDEV"

\* a rename that failed with EACCES while the devices differ: thrown
C6_Witness ==
  /\ pf.inUse
  /\ ~pf.copyFiles
  /\ pc = "throw"
  /\ err = "EACCES"
  /\ faults.xdev
  /\ \E i \in OpsOf("rename") : ops[i].result = "EACCES"
  /\ pf.sourcePath \in DOMAIN fsys

(***************************************************************************)
(* The runs of the import specification                                    *)
(***************************************************************************)

RunMediaDir == <<"r", "/", "d">>

\* the listings of the media directory: a primary and its companion; two
\* primaries of different stems; two primaries of one stem and their
\* companion; a group and a lone primary; nothing that qualifies
RunListings ==
  { << <<"a", ".", "M">>, <<"a", ".", "s">> >>,
    << <<"a", ".", "M">>, <<"b", ".", "M">> >>,
    << <<"a", ".", "M">>, <<"a", ".", "v">>, <<"a", ".", "s">> >>,
    << <<"a", ".", "M">>, <<"a", ".", "s">>, <<"b", ".", "M">> >>,
    << <<"a", ".", "x">> >> }

\* the bytes of the source file of that name
RunContent(name) ==
  IF name = <<"a", ".", "M">> THEN "bytes of a.M"
  ELSE IF name = <<"a", ".", "v">> THEN "bytes of a.v"
  ELSE IF name = <<"a", ".", "s">> THEN "bytes of a.s"
  ELSE IF name = <<"b", ".", "M">> THEN "bytes of b.M"
  ELSE "bytes of a.x"

\* the extension lists: disjoint, or with .s in both
RunExtensionLists ==
  { [primaryExtensions |-> <<<<".", "m">>, <<".", "v">>>>,
     companionExtensions |-> <<<<".", "s">>>>],
    [primaryExtensions |-> <<<<".", "m">>, <<".", "s">>>>,
     companionExtensions |-> <<<<".", "s">>>>] }

RunProfiles ==
  { [sourcePath |-> <<"r">>,
     destinationRoot |-> <<"D">>,
     cameraLabel |-> <<"C">>,
     filenameFormat |-> DefaultFilenameFormat,
     useExifDate |-> TRUE,
     includeExtensions |-> <<<<".", "m">>, <<".", "s">>, <<".", "v">>>>,
     excludeExtensions |-> <<>>,
     excludeFolders |-> <<>>,
     maintainFileRelationships |-> m,
     primaryExtensions |-> e.primaryExtensions,
     companionExtensions |-> e.companionExtensions,
     onCollision |-> policy,
     transferMode |-> mode] :
      m \in BOOLEAN, e \in RunExtensionLists,
      policy \in {"rename", "replace"}, mode \in {"copy", "move"} }

\* the names the files of date 0 are given in the zone tz
RunTargetDir == Join(<<"D">>, IsoDate(0))

RunTargetName(tz, ext) ==
  LET target == GenerateTargetPath(0, tz, <<"C">>, <<"f">> \o ext, <<"D">>,
                                   DefaultFilenameFormat)
  IN Join(RunTargetDir, target.baseFilename)

\* what the destination may hold before the run: the wanted name of .M, its
\* first renamed name, the wanted name of .s
RunPresent(tz) ==
  { RunTargetName(tz, <<".", "M">>),
    Join(RunTargetDir,
         LET n == Basename(RunTargetName(tz, <<".", "M">>))
         IN SuffixedName(BasenameExt(n, Extname(n)), 1, Extname(n))),
    RunTargetName(tz, <<".", "s">>) }

\* the failures of a run: none; another device, alone and with a failing
\* unlink or copy; a failing rename, copy, mkdir; a probe that is denied
RunFaults(tz) ==
  LET aM == Join(RunMediaDir, <<"a", ".", "M">>)
      as == Join(RunMediaDir, <<"a", ".", "s">>)
  IN { NoFaults,
       [NoFaults EXCEPT !.xdev = TRUE],
       [NoFaults EXCEPT !.xdev = TRUE, !.unlink = {as}],
       [NoFaults EXCEPT !.xdev = TRUE, !.copy = {as}],
       [NoFaults EXCEPT !.rename = {as}],
       [NoFaults EXCEPT !.copy = {aM}],
       [NoFaults EXCEPT !.mkdir = TRUE],
       [NoFaults EXCEPT !.access = {RunTargetName(tz, <<".", "s">>)}],
       [NoFaults EXCEPT !.access = {RunTargetName(tz, <<".", "M">>)}] }

\* the runs: failures are tried in zone 0 with disjoint extension lists, a
\* second date only where b.M is listed, and a source without a qualifying
\* file only with an empty destination. Every file but b.M has an embedded
\* date; exiftool may be missing where b.M is listed and nothing else fails
Init ==
  /\ pc = "run_scan"
  /\ profile \in RunProfiles
  /\ \E names \in RunListings, tz \in {0, 2}, later \in {0, 86400},
        spawnFails \in BOOLEAN :
       LET sources == {Join(RunMediaDir, names[i]) : i \in 1..Len(names)}
           disjoint == ~Includes(profile.primaryExtensions, <<".", "s">>)
       IN /\ Includes(names, <<"b", ".", "M">>) \/ later = 0
          /\ profile.maintainFileRelationships \/ disjoint
          /\ tree = [d \in {<<"r">>, RunMediaDir} |->
                       IF d = <<"r">> THEN <<DirEntry(<<"d">>)>>
                       ELSE [i \in 1..Len(names) |-> FileEntry(names[i])]]
          /\ env = [dates |-> [q \in sources |->
                                 IF Basename(q) = <<"b", ".", "M">> THEN later ELSE 0],
                    tz |-> tz,
                    embedded |-> {q \in sources : Basename(q) # <<"b", ".", "M">>},
                    spawnFails |-> spawnFails]
          /\ ~spawnFails
               \/ (Includes(names, <<"b", ".", "M">>) /\ tz = 0 /\ later = 0
                     /\ disjoint /\ faults = NoFaults)
          /\ \E present \in SUBSET RunPresent(tz) :
               /\ names # << <<"a", ".", "x">> >> \/ present = {}
               /\ fsys = [q \in sources \cup present |->
                            IF q \in sources THEN RunContent(Basename(q)) ELSE "old"]
               /\ dirs = {<<"r">>, RunMediaDir}
                           \cup (IF present = {} THEN {}
                                 ELSE WithParents(RunTargetDir))
          /\ faults \in RunFaults(tz)
          /\ faults = NoFaults
               \/ (tz = 0 /\ disjoint /\ names # << <<"a", ".", "x">> >>
                     /\ (profile.maintainFileRelationships
                           \/ faults = [NoFaults EXCEPT !.xdev = TRUE]))
  /\ unreadable = {}
  /\ files = <<>>
  /\ fileGroups = <<>>
  /\ err = "none"
  /\ ops = <<>>
  /\ grp = NoFrame
  /\ fa = NoFrame
  /\ pf = NoFrame
  /\ run = NoFrame
  /\ ed = NoFrame
  /\ fsys0 = fsys
  /\ logger = NewLogger("info", Null)

Next ==
  \/ RunScan
  \/ RunExtractDate
  \/ RunExtractDateFails
  \/ RunExtractDateUncaught
  \/ PfgEnter
  \/ PfgReplace
  \/ PfgRename
  \/ FaExists
  \/ FaNotFound
  \/ FaError
  \/ PfgCallProcessFile
  \/ ProcessFileSteps
  \/ PfgPush
  \/ PfgReturn
  \/ RunLogResults
  \/ RunCatch
  \/ RunSummary

Spec == Init /\ [][Next]_vars

(***************************************************************************)
(* Properties of the run (C1, C2, C4)                                      *)
(***************************************************************************)

\* the calls that wrote a file: a copyFile or a rename that succeeded
WriteOps ==
  {i \in 1..Len(ops) : ops[i].op \in {"copyFile", "rename"} /\ ops[i].result = "ok"}

\* the write ops[i] follows a probe of its own call that found its target
\* absent, with nothing between them but the mkdir of that call and a rename
\* of that call that failed
ProbedFree(i) ==
  \E j \in 1..(i - 1) :
    /\ ops[j].op = "access"
    /\ ops[j].result = "ENOENT"
    /\ ops[j].path = ops[i].to
    /\ ops[j].call = ops[i].call
    /\ \A k \in (j + 1)..(i - 1) :
         /\ ops[k].call = ops[i].call
         /\ \/ ops[k].op = "mkdir"
            \/ ops[k].op = "rename" /\ ops[k].result # "ok"

InDestination(path) == StartsWith(path, profile.destinationRoot \o <<"/">>)

\* C1: with onCollision 'rename', every file is written to a path its probe
\* found absent, every file the destination held before the run is still
\* there with its content, and no two writes of the run have the same target
C1_RenameNeverOverwrites ==
  profile.onCollision = "rename" =>
    /\ \A i \in WriteOps : ProbedFree(i)
    /\ \A q \in DOMAIN fsys0 :
         InDestination(q) => q \in DOMAIN fsys /\ fsys[q] = fsys0[q]
    /\ \A i, j \in WriteOps : i # j => ops[i].to # ops[j].to

\* a finished run under 'rename' in which a probe found a file of before the
\* run, a later probe found a file the run had written, and two groups wrote
C1_Witness ==
  /\ pc = "done"
  /\ profile.onCollision = "rename"
  /\ \E j \in 1..Len(ops) :
       ops[j].op = "access" /\ ops[j].result = "ok" /\ ops[j].path \in DOMAIN fsys0
  /\ \E i \in WriteOps : \E j \in (i + 1)..Len(ops) :
       ops[j].op = "access" /\ ops[j].result = "ok" /\ ops[j].path = ops[i].to
  /\ \E i, j \in WriteOps : ops[i].call[1] # ops[j].call[1]

\* the filename of a path without its extension
Stem(path) == BasenameExt(Basename(path), Extname(path))

\* C2: all results of a group lie in one directory and have one stem
C2_GroupSharesStem ==
  pc = "run_results" =>
    \A i, j \in 1..Len(grp.results) :
      /\ Dirname(grp.results[i].targetPath) = Dirname(grp.results[j].targetPath)
      /\ Stem(grp.results[i].targetPath) = Stem(grp.results[j].targetPath)

\* the probes that failed with an error other than ENOENT
FailedProbes ==
  {i \in 1..Len(ops) : ops[i].op = "access" /\ ops[i].result \notin {"ok", "ENOENT"}}

\* C4: a probe that fails with another error than ENOENT is thrown to
\* runImport with that error, no filesystem call of that file follows it, and
\* a filename is only returned after a probe of it that failed with ENOENT
C4_ProbeErrorPropagates ==
  /\ \A i \in FailedProbes :
       /\ \A j \in (i + 1)..Len(ops) : ops[j].call # ops[i].call
       /\ i = Len(ops) /\ run.gi = ops[i].call[1] =>
            pc = "throw" /\ err = ops[i].result
       /\ run.gi >= ops[i].call[1]
       /\ run.gi > ops[i].call[1] => run.errors >= Len(fileGroups[ops[i].call[1]].files)
  /\ pc = "pf_enter" /\ grp.onCollision # "replace" =>
       /\ ops # <<>>
       /\ ops[Len(ops)] = AccessOp(Join(grp.targetDir, grp.finalFilename), "ENOENT")

\* a probe of the second file of a group failed after the first file had
\* been written, the error was caught and the run went on to its end
C4_Witness ==
  /\ pc = "done"
  /\ \E i \in FailedProbes :
       /\ ops[i].call[2] = 2
       /\ \E w \in WriteOps : w < i /\ ops[w].call[1] = ops[i].call[1]
  /\ run.errors > 0

(***************************************************************************)
(* Properties of the date resolver (C13, C14)                              *)
(***************************************************************************)

\* the sources consulted so far, in order
RECURSIVE OpNames(_)
OpNames(log) == IF log = <<>> THEN <<>> ELSE <<Head(log).op>> \o OpNames(Tail(log))

\* the stage the specification lets win: the first, in the order
\* DateTimeOriginal, DateTime, exiftool, mtime, whose value parses
WinningStage ==
  IF env.exifr.outcome = "data" /\ env.exifr.DateTimeOriginal.parses THEN 1
  ELSE IF env.exifr.outcome = "data" /\ env.exifr.DateTime.parses THEN 2
  ELSE IF env.exiftool.outcome = "output" /\ env.exiftool.value.parses THEN 3
  ELSE 4

StageValue(stage) ==
  IF stage = 1 THEN NewDate(env.exifr.DateTimeOriginal)
  ELSE IF stage = 2 THEN NewDate(env.exifr.DateTime)
  ELSE IF stage = 3 THEN NewDate(env.exiftool.value)
  ELSE ValidDate(env.stat.mtime)

StageCalls(stage) ==
  IF stage <= 2 THEN <<"exifr.parse">>
  ELSE IF stage = 3 THEN <<"exifr.parse", "exiftool">>
  ELSE <<"exifr.parse", "exiftool", "fs.stat">>

\* C13: with useExifDate the value returned is that of the first stage, in
\* the order DateTimeOriginal, DateTime, exiftool, mtime, whose value parses,
\* a field that is present but does not parse being skipped, and no stage
\* after it is consulted; without useExifDate the mtime is returned and
\* neither the reader nor the subprocess is called.
C13_FirstParseableStageWins ==
  pc = "ed_return" =>
    IF ed.useExifDate
      THEN /\ ed.result = StageValue(WinningStage)
           /\ OpNames(ops) = StageCalls(WinningStage)
      ELSE /\ ed.result = ValidDate(env.stat.mtime)
           /\ OpNames(ops) = <<"fs.stat">>

\* no field exifr gives is a string that does not parse
ExifrFieldsParse ==
  /\ env.exifr.DateTimeOriginal.present => env.exifr.DateTimeOriginal.parses
  /\ env.exifr.DateTime.present => env.exifr.DateTime.parses

C13_HoldsForParseableFields == ExifrFieldsParse => C13_FirstParseableStageWins

\* C14: extractFileDate throws nothing to its caller or past it, and the
\* Date it returns is valid.
C14_NeverRaisesAlwaysValid ==
  /\ pc \notin {"throw", "uncaught"}
  /\ pc = "ed_return" => ed.result.valid

(***************************************************************************)
(* Properties of the target path (C15, C16, C17)                           *)
(***************************************************************************)

Planned == pc = "pfg_loop" /\ grp.inUse /\ grp.results = <<>> /\ grp.i = 1

\* the UTC date and the UTC time of day of an instant
UtcDate(date) == IsoDate(date)

UtcTime(date) == LocalTime(date, 0)

\* C15: the target directory is destinationRoot/YYYY-MM-DD with the UTC date
\* of the timestamp, whatever the camera label, the extension of the
\* original path and the template (and the zone of the process) are.
C15_TargetDirIsUtcDate ==
  Planned => grp.targetDir = grp.destinationRoot \o <<"/">> \o UtcDate(grp.date)

\* the last second of a UTC day in a zone where the next day has begun, a
\* label with a pattern in it, another template than the default one
C15_Witness ==
  /\ Planned
  /\ grp.date = 86399
  /\ grp.tz = 2
  /\ grp.cameraLabel = <<"$", "&">>
  /\ grp.filenameFormat # DefaultFilenameFormat
  /\ Extname(grp.group.primaryFile) = <<".", "M">>
  /\ grp.targetDir = <<"/", "t", "/", "2", "0", "2", "5", "-", "0", "7", "-", "0", "5">>

\* C16: no conversion to the zone of the process: with the default template
\* and a plain label the filename is made of the UTC date and the UTC time of
\* the instant, in every zone.
C16_NameIsUtc ==
  (Planned /\ grp.filenameFormat = DefaultFilenameFormat /\ grp.cameraLabel = <<"C">>) =>
    grp.baseFilename =
      UtcDate(grp.date) \o <<"_">> \o ColonsToDashes(UtcTime(grp.date)) \o <<"_">>
        \o grp.cameraLabel \o Extname(grp.group.primaryFile)

C16_HoldsInUtc == grp.tz = 0 => C16_NameIsUtc

\* every occurrence of pat in s replaced by rep, taken literally
RECURSIVE ReplaceAllLiteral(_, _, _)
ReplaceAllLiteral(s, pat, rep) ==
  IF Len(s) < Len(pat) THEN s
  ELSE IF SubSeq(s, 1, Len(pat)) = pat
    THEN rep \o ReplaceAllLiteral(SubSeq(s, Len(pat) + 1, Len(s)), pat, rep)
  ELSE <<s[1]>> \o ReplaceAllLiteral(Tail(s), pat, rep)

\* C17: every occurrence of {date}, {time} and {camera} is replaced, the
\* camera label literally, the time with '-' for ':', and the extension of
\* the original file is appended as it is.
C17_EveryPlaceholderLiterally ==
  Planned =>
    grp.baseFilename =
      ReplaceAllLiteral(
        ReplaceAllLiteral(
          ReplaceAllLiteral(grp.filenameFormat, DatePlaceholder, IsoDate(grp.date)),
          TimePlaceholder, ColonsToDashes(LocalTime(grp.date, grp.tz))),
        CameraPlaceholder, grp.cameraLabel)
      \o Extname(grp.group.primaryFile)

\* templates with each placeholder at most once, labels without a '$'
C17_HoldsForSingleOccurrences ==
  (/\ grp.inUse
   /\ grp.filenameFormat \in {DefaultFilenameFormat, <<"x">>,
        TimePlaceholder \o <<"_">> \o CameraPlaceholder \o <<"_">> \o DatePlaceholder}
   /\ grp.cameraLabel = <<"C">>) => C17_EveryPlaceholderLiterally

(***************************************************************************)
(* Properties of the results of a group (C18)                              *)
(***************************************************************************)

\* one result per entry of group.files, in that order, with that entry as
\* sourcePath and isCompanion telling whether it is in group.companionFiles
ResultsFollowFiles ==
  /\ Len(grp.results) = Len(grp.group.files)
  /\ \A i \in 1..Len(grp.results) :
       /\ grp.results[i].sourcePath = grp.group.files[i]
       /\ grp.results[i].isCompanion
            = (grp.group.files[i] \in SeqRange(grp.group.companionFiles))

C19_RunNeverAborts ==
  run.inUse => /\ pc # "uncaught"
               /\ pc = "done" => run.gi = Len(fileGroups) + 1

\* the groups are taken one after the other in the order of the scan, and the
\* summary is only reached past the last one
C19_GroupsInOrder ==
  [][/\ run.inUse /\ run'.gi # run.gi => run'.gi = run.gi + 1
     /\ pc' = "done" /\ pc # "done" /\ run.inUse => run.gi = Len(fileGroups) + 1]_vars

\* where exiftool can be spawned the run is never ended by an exception
C19_HoldsWhereExiftoolSpawns == ~env.spawnFails => C19_RunNeverAborts

(***************************************************************************)
(* parseArgs and the coordinates of --gps (src/src/cli.js 84-117,          *)
(* src/src/gpsHandler.js 112-160)                                          *)
(***************************************************************************)

\* --report without a file name: parsed.report is true
BareReport == [given |-> TRUE, bare |-> TRUE]

\* args[i], undefined past the end
ArgAt(args, i) == IF i <= Len(args) THEN Given(args[i]) ELSE Undefined

\* line 86: nothing is parsed yet; a flag that is not set is undefined, which
\* is falsy
NoArgs ==
  [help |-> FALSE, headless |-> FALSE, gpsSkip |-> FALSE,
   profile |-> Undefined, source |-> Undefined, destination |-> Undefined,
   camera |-> Undefined, onCollision |-> Undefined, logLevel |-> Undefined,
   report |-> Undefined, gpsCoordinates |-> Undefined]

RECURSIVE ParseFrom(_, _, _)
\* lines 88-114: the loop over the arguments from the i-th on; an option
\* with a value takes the next argument, whatever it is
ParseFrom(args, i, parsed) ==
  IF i > Len(args) THEN parsed
  ELSE LET arg == args[i]
           next == ArgAt(args, i + 1)
       IN IF arg \in {"--help", "-h"}
            THEN ParseFrom(args, i + 1, [parsed EXCEPT !.help = TRUE])
          ELSE IF arg = "--headless"
            THEN ParseFrom(args, i + 1, [parsed EXCEPT !.headless = TRUE])
          ELSE IF arg \in {"--profile", "-p"}
            THEN ParseFrom(args, i + 2, [parsed EXCEPT !.profile = next])
          ELSE IF arg \in {"--source", "-s"}
            THEN ParseFrom(args, i + 2, [parsed EXCEPT !.source = next])
          ELSE IF arg \in {"--destination", "-d"}
            THEN ParseFrom(args, i + 2, [parsed EXCEPT !.destination = next])
          ELSE IF arg \in {"--camera", "-c"}
            THEN ParseFrom(args, i + 2, [parsed EXCEPT !.camera = next])
          ELSE IF arg = "--on-collision"
            THEN ParseFrom(args, i + 2, [parsed EXCEPT !.onCollision = next])
          ELSE IF arg \in {"--log-level", "-l"}
            THEN ParseFrom(args, i + 2, [parsed EXCEPT !.logLevel = next])
          ELSE IF arg \in {"--report", "-r"}
            THEN ParseFrom(args, i + 2,
                           [parsed EXCEPT !.report = IF TruthyName(next) THEN next
                                                     ELSE BareReport])
          ELSE IF arg \in {"--gps", "-g"}
            THEN ParseFrom(args, i + 2, [parsed EXCEPT !.gpsCoordinates = next])
          ELSE IF arg = "--gps-skip"
            THEN ParseFrom(args, i + 1, [parsed EXCEPT !.gpsSkip = TRUE])
          ELSE ParseFrom(args, i + 1, parsed)

\* lines 84-117
ParseArgs(args) == ParseFrom(args, 1, NoArgs)

\* gpsHandler.js 112-130: the ranges of a latitude and a longitude
ValidateCoordinates(latitude, longitude) ==
  /\ latitude >= -90 /\ latitude <= 90
  /\ longitude >= -180 /\ longitude <= 180

\* gpsHandler.js 146-150: the two numbers of a text in decimal degrees, for
\* the texts the arguments are drawn from; <<>> where the pattern does not
\* match
DecimalMatch(text) ==
  CASE text = "40,-74" -> <<40, -74>>
    [] text = "91,0" -> <<91, 0>>
    [] OTHER -> <<>>

\* gpsHandler.js 137-160: the coordinates of a text, or an error
ParseCoordinateString(coordString) ==
  IF ~TruthyName(coordString) THEN [error |-> "Coordinate string is required"]
  ELSE LET m == DecimalMatch(coordString.value)
       IN IF m = <<>> THEN [error |-> "Invalid coordinate format"]
          ELSE IF ValidateCoordinates(m[1], m[2])
            THEN [latitude |-> m[1], longitude |-> m[2]]
          ELSE [error |-> "Coordinates out of range"]

\* the characters of an argument, for the paths and labels the arguments
\* are drawn from
TextOf(arg) ==
  CASE arg = "r" -> <<"r">>
    [] arg = "D" -> <<"D">>
    [] arg = "K" -> <<"K">>
    [] OTHER -> <<"?">>

(***************************************************************************)
(* validateProfile (src/src/config.js 65-137) and its call in main         *)
(* (src/src/cli.js 71-76)                                                  *)
(***************************************************************************)

\* lines 101-113
DefaultIncludeExtensions ==
  << <<".", "j", "p", "g">>,
     <<".", "j", "p", "e", "g">>,
     <<".", "r", "a", "w">>,
     <<".", "c", "r", "2">>,
     <<".", "n", "e", "f">>,
     <<".", "a", "r", "w">>,
     <<".", "d", "n", "g">>,
     <<".", "m", "p", "4">>,
     <<".", "m", "o", "v">>,
     <<".", "a", "v", "i">>,
     <<".", "s", "r", "t">> >>

\* lines 121-133
DefaultPrimaryExtensions ==
  << <<".", "m", "p", "4">>,
     <<".", "m", "o", "v">>,
     <<".", "a", "v", "i">>,
     <<".", "j", "p", "g">>,
     <<".", "j", "p", "e", "g">>,
     <<".", "h", "e", "i", "c">>,
     <<".", "r", "a", "w">>,
     <<".", "c", "r", "2">>,
     <<".", "n", "e", "f">>,
     <<".", "a", "r", "w">>,
     <<".", "d", "n", "g">> >>

\* line 134
DefaultCompanionExtensions ==
  << <<".", "s", "r", "t">>,
     <<".", "l", "r", "f">>,
     <<".", "x", "m", "p">> >>

\* lines 66-70: the required fields that are missing
MissingFields(p) ==
  {f \in {"sourcePath", "destinationRoot", "cameraLabel"} : ~TruthyText(p[f])}

\* lines 88-94: transferMode, then the older copyFiles (anything but
\* undefined, taken by its truthiness), then 'copy'
ResolvedTransferMode(p) ==
  IF TruthyName(p.transferMode) THEN p.transferMode.value
  ELSE IF p.copyFiles.given THEN (IF TruthyFlag(p.copyFiles) THEN "copy" ELSE "move")
  ELSE "copy"

\* lines 97-136: the profile that is returned, with its defaults
ValidatedProfile(p) ==
  [sourcePath |-> p.sourcePath.value,
   destinationRoot |-> p.destinationRoot.value,
   cameraLabel |-> p.cameraLabel.value,
   includeExtensions |-> IF p.includeExtensions.given THEN p.includeExtensions.value
                         ELSE DefaultIncludeExtensions,
   excludeExtensions |-> IF p.excludeExtensions.given THEN p.excludeExtensions.value
                         ELSE <<>>,
   excludeFolders |-> IF p.excludeFolders.given THEN p.excludeFolders.value ELSE <<>>,
   transferMode |-> ResolvedTransferMode(p),
   useExifDate |-> ~(p.useExifDate.given /\ p.useExifDate.value = FALSE),
   onCollision |-> IF TruthyName(p.onCollision) THEN p.onCollision.value ELSE "rename",
   logLevel |-> IF TruthyName(p.logLevel) THEN p.logLevel.value ELSE "info",
   maintainFileRelationships |->
     ~(p.maintainFileRelationships.given /\ p.maintainFileRelationships.value = FALSE),
   primaryExtensions |-> IF p.primaryExtensions.given THEN p.primaryExtensions.value
                         ELSE DefaultPrimaryExtensions,
   companionExtensions |-> IF p.companionExtensions.given THEN p.companionExtensions.value
                           ELSE DefaultCompanionExtensions,
   filenameFormat |-> IF TruthyText(p.filenameFormat) THEN p.filenameFormat.value
                      ELSE DefaultFilenameFormat]

\* lines 65-137: the error that is thrown, or the profile that is returned
ValidateProfile(p) ==
  IF MissingFields(p) # {}
    THEN [threw |-> TRUE, message |-> "Missing required fields"]
  ELSE IF TruthyName(p.onCollision) /\ p.onCollision.value \notin {"rename", "replace"}
    THEN [threw |-> TRUE, message |-> "Invalid onCollision value"]
  ELSE IF TruthyName(p.transferMode) /\ p.transferMode.value \notin {"copy", "move"}
    THEN [threw |-> TRUE, message |-> "Invalid transferMode value"]
  ELSE IF TruthyName(p.logLevel) /\ p.logLevel.value \notin {"debug", "info", "warn", "error"}
    THEN [threw |-> TRUE, message |-> "Invalid logLevel value"]
  ELSE [threw |-> FALSE, value |-> ValidatedProfile(p)]

\* cli.js 71 and 77-79: the profile is validated; an error is printed and the
\* process exits with 1
MainValidate ==
  /\ pc = "main_validate"
  /\ LET r == ValidateProfile(profile)
     IN IF r.threw
          THEN /\ err' = r.message
               /\ pc' = "exit"
               /\ UNCHANGED profile
          ELSE /\ profile' = r.value
               /\ pc' = "main_run"
               /\ UNCHANGED err
  /\ UNCHANGED <<tree, unreadable, files, fileGroups, env, logger, ed, run, varsFs, ops, grp, fa, pf>>

\* the arguments of the process, parsed
Args == ParseArgs(env.argv)

\* cli.js 74 and logger.js 13: a report without a name gives null, and so
\* does no report at all
ReportFileOf(report) == IF report = BareReport \/ ~report.given THEN Null ELSE report

\* cli.js 73-76: the logger is made and runImport is called with the
\* validated profile
MainRunImport ==
  /\ pc = "main_run"
  /\ logger' = NewLogger(profile.logLevel, ReportFileOf(Args.report))
  /\ pc' = "run_scan"
  /\ UNCHANGED <<varsScan, ed, run, varsFs, err, ops, grp, fa, pf>>

\* the option names and the templates a profile is loaded with
GivenCollisions == {Undefined, Given(""), Given("rename"), Given("replace"), Given("skip")}

GivenTransferModes == {Undefined, Given(""), Given("copy"), Given("move"), Given("invalid")}

GivenLogLevels == {Undefined, Given("debug"), Given("verbose")}

YearPlaceholder == <<"{", "y", "e", "a", "r", "}">>

GivenTemplates ==
  { Undefined, Given(<<>>), Given(DefaultFilenameFormat),
    Given(YearPlaceholder \o <<"_">> \o CameraPlaceholder) }

GivenProfiles ==
  { [sourcePath |-> src,
     destinationRoot |-> dst,
     cameraLabel |-> Given(<<"C">>),
     includeExtensions |-> inc,
     excludeExtensions |-> Undefined,
     excludeFolders |-> Undefined,
     transferMode |-> mode,
     copyFiles |-> cp,
     useExifDate |-> ux,
     onCollision |-> policy,
     logLevel |-> level,
     maintainFileRelationships |-> Undefined,
     primaryExtensions |-> Undefined,
     companionExtensions |-> Undefined,
     filenameFormat |-> template] :
      src \in {Undefined, Given(<<>>), Given(<<"r">>)},
      dst \in {Undefined, Given(<<"D">>)},
      inc \in {Undefined, Given(<<<<".", "m">>>>)},
      mode \in GivenTransferModes,
      cp \in {Undefined, Null, Given(TRUE), Given(FALSE)},
      ux \in {Undefined, Given(FALSE)},
      policy \in GivenCollisions,
      level \in GivenLogLevels,
      template \in GivenTemplates }

\* main is about to validate a loaded profile; the source holds two files
InitValidate ==
  /\ pc = "main_validate"
  /\ profile \in GivenProfiles
  /\ env = [dates |-> <<>>, tz |-> 0, given |-> profile,
            argv |-> <<"--profile", "p", "--headless">>]
  /\ tree = (<<"r">> :> <<FileEntry(<<"a", ".", "m">>), FileEntry(<<"b", ".", "m", "p", "4">>)>>)
  /\ unreadable = {}
  /\ files = <<>>
  /\ fileGroups = <<>>
  /\ fsys = <<>>
  /\ dirs = {}
  /\ faults = NoFaults
  /\ err = "none"
  /\ ops = <<>>
  /\ grp = NoFrame
  /\ fa = NoFrame
  /\ pf = NoFrame
  /\ run = NoFrame
  /\ ed = NoFrame
  /\ fsys0 = fsys
  /\ logger = NoFrame

NextValidate == MainValidate \/ MainRunImport \/ RunScan

SpecValidate == InitValidate /\ [][NextValidate]_vars

(***************************************************************************)
(* Properties of the validation (C20)                                      *)
(***************************************************************************)

\* the texts between braces of a template
Placeholders(t) ==
  { SubSeq(t, q[1], q[2]) :
      q \in { r \in (1..Len(t)) \X (1..Len(t)) :
                /\ r[1] < r[2]
                /\ t[r[1]] = "{"
                /\ t[r[2]] = "}"
                /\ \A k \in (r[1] + 1)..(r[2] - 1) : t[k] \notin {"{", "}"} } }

\* a template whose placeholders are all among {date}, {time}, {camera}
RecognizedTemplate(t) ==
  Placeholders(t) \subseteq {DatePlaceholder, TimePlaceholder, CameraPlaceholder}

\* runImport has been called, or the scan has been made
ReachedRunImport == pc \in {"main_run", "run_scan"} \/ run.inUse

\* the loaded profile names a transfer mode or a collision policy that is
\* not a recognized one ('' counts as no value)
GivenUnrecognizedOption ==
  \/ TruthyName(env.given.transferMode) /\ env.given.transferMode.value \notin {"copy", "move"}
  \/ TruthyName(env.given.onCollision) /\ env.given.onCollision.value \notin {"rename", "replace"}

\* the loaded profile has a template that is not a recognized one
GivenUnrecognizedTemplate ==
  env.given.filenameFormat.given /\ ~RecognizedTemplate(env.given.filenameFormat.value)

\* C20: a profile with an unrecognized transferMode, onCollision or template
\* never reaches runImport, and a profile that reaches it has transferMode
\* copy or move, onCollision rename or replace and a recognized template.
C20_UnrecognizedValuesRejected ==
  ReachedRunImport =>
    /\ ~GivenUnrecognizedOption
    /\ ~GivenUnrecognizedTemplate
    /\ profile.transferMode \in {"copy", "move"}
    /\ profile.onCollision \in {"rename", "replace"}
    /\ RecognizedTemplate(profile.filenameFormat)

\* what does hold: a profile with an unrecognized transferMode or onCollision
\* never reaches runImport, and the profile that reaches it has transferMode
\* copy or move and onCollision rename or replace
C20_HoldsForModeAndCollision ==
  ReachedRunImport =>
    /\ ~GivenUnrecognizedOption
    /\ profile.transferMode \in {"copy", "move"}
    /\ profile.onCollision \in {"rename", "replace"}

(***************************************************************************)
(* Properties of the transfer mode of a validated profile (C21)            *)
(***************************************************************************)

\* validateProfile has returned the profile
Validated == pc \in {"main_run", "run_scan"} \/ run.inUse

\* the loaded profile has a transferMode (a non-empty one)
GivenMode == TruthyName(env.given.transferMode)

\* the precedence: transferMode, then copyFiles true or false, then 'copy'
ModeByPrecedence ==
  /\ GivenMode => profile.transferMode = env.given.transferMode.value
  /\ ~GivenMode /\ env.given.copyFiles = Given(TRUE) => profile.transferMode = "copy"
  /\ ~GivenMode /\ env.given.copyFiles = Given(FALSE) => profile.transferMode = "move"
  /\ ~GivenMode /\ env.given.copyFiles \notin {Given(TRUE), Given(FALSE)} =>
       profile.transferMode = "copy"

\* the profile is one that asks for the sources to be removed
AsksForMove ==
  \/ env.given.transferMode = Given("move")
  \/ ~GivenMode /\ env.given.copyFiles = Given(FALSE)

\* C21: the transfer mode of a validated profile follows the precedence
\* transferMode, copyFiles true or false, default 'copy', and it is 'move'
\* only where transferMode is 'move' or, without a transferMode, copyFiles
\* is false.
C21_TransferModePrecedence ==
  Validated => /\ ModeByPrecedence
               /\ profile.transferMode = "move" => AsksForMove

\* what does hold: the same for the profiles whose copyFiles is absent, true
\* or false
C21_HoldsUnlessCopyFilesIsNull ==
  Validated /\ env.given.copyFiles # Null =>
    /\ ModeByPrecedence
    /\ profile.transferMode = "move" => AsksForMove

(***************************************************************************)
(* main in headless mode (src/src/cli.js 14-77)                            *)
(***************************************************************************)

\* lines 16-46: the help, the profiles that are loaded, the profile the
\* arguments name; without --profile a profile is asked for at the prompt
MainArgs ==
  /\ pc = "main"
  /\ IF Args.help THEN pc' = "exit" /\ UNCHANGED <<profile, err>>
     ELSE IF ~TruthyName(Args.profile) THEN pc' = "prompt" /\ UNCHANGED <<profile, err>>
     ELSE IF Args.profile.value \notin DOMAIN env.profiles
       THEN pc' = "exit" /\ err' = "Profile not found" /\ UNCHANGED profile
     ELSE /\ profile' = env.profiles[Args.profile.value]
          /\ pc' = "main_overrides"
          /\ UNCHANGED err
  /\ UNCHANGED <<tree, unreadable, files, fileGroups, env, logger, ed, run, varsFs, ops, grp, fa, pf>>

\* lines 50-66: the overrides of the arguments
HeadlessOverrides(p, args) ==
  LET p1 == IF TruthyName(args.source)
              THEN [p EXCEPT !.sourcePath = Given(TextOf(args.source.value))] ELSE p
      p2 == IF TruthyName(args.destination)
              THEN [p1 EXCEPT !.destinationRoot = Given(TextOf(args.destination.value))]
              ELSE p1
      p3 == IF TruthyName(args.camera)
              THEN [p2 EXCEPT !.cameraLabel = Given(TextOf(args.camera.value))] ELSE p2
      p4 == IF TruthyName(args.onCollision)
              THEN [p3 EXCEPT !.onCollision = args.onCollision] ELSE p3
      p5 == IF TruthyName(args.logLevel) THEN [p4 EXCEPT !.logLevel = args.logLevel] ELSE p4
      parsed == ParseCoordinateString(args.gpsCoordinates)
      p6 == IF TruthyName(args.gpsCoordinates)
              THEN [p5 EXCEPT !.gpsCoordinates = Given(parsed), !.addGpsData = Given(TRUE)]
              ELSE p5
  IN IF args.gpsSkip THEN [p6 EXCEPT !.addGpsData = Given(FALSE)] ELSE p6

\* lines 48-66: headless, the arguments override the profile; coordinates
\* that do not parse end the process
MainHeadless ==
  /\ pc = "main_overrides"
  /\ Args.headless
  /\ IF /\ TruthyName(Args.gpsCoordinates)
        /\ "error" \in DOMAIN ParseCoordinateString(Args.gpsCoordinates)
       THEN /\ err' = "Invalid GPS coordinates"
            /\ pc' = "exit"
            /\ UNCHANGED profile
       ELSE /\ profile' = HeadlessOverrides(profile, Args)
            /\ pc' = "main_validate"
            /\ UNCHANGED err
  /\ UNCHANGED <<tree, unreadable, files, fileGroups, env, logger, ed, run, varsFs, ops, grp, fa, pf>>

\* lines 67-69: without --headless the overrides are asked for at the prompt
MainPrompt ==
  /\ pc = "main_overrides"
  /\ ~Args.headless
  /\ pc' = "prompt"
  /\ UNCHANGED <<varsScan, logger, ed, run, varsFs, err, ops, grp, fa, pf>>

\* the coordinates a loaded profile may hold
HomeCoordinates == [latitude |-> 50, longitude |-> 30]

\* the profile p as it is loaded from its file
MainProfiles ==
  { [sourcePath |-> Given(<<"r">>),
     destinationRoot |-> Given(<<"D">>),
     cameraLabel |-> Given(<<"C">>),
     includeExtensions |-> Undefined,
     excludeExtensions |-> Undefined,
     excludeFolders |-> Undefined,
     transferMode |-> mode,
     copyFiles |-> Undefined,
     useExifDate |-> Undefined,
     onCollision |-> Undefined,
     logLevel |-> Undefined,
     maintainFileRelationships |-> Undefined,
     primaryExtensions |-> Undefined,
     companionExtensions |-> Undefined,
     filenameFormat |-> Undefined,
     addGpsData |-> gps[1],
     gpsCoordinates |-> gps[2]] :
      mode \in {Undefined, Given("move")},
      gps \in {<<Undefined, Undefined>>, <<Given(TRUE), Given(HomeCoordinates)>>} }

\* the command lines main is started with
MainArgvs ==
  { <<"--profile", "p", "--headless">>,
    <<"--profile", "p", "--headless", "--gps", "40,-74">>,
    <<"--profile", "p", "--headless", "--gps", "91,0">>,
    <<"--profile", "p", "--headless", "--gps", "40,-74", "--gps-skip">>,
    <<"--profile", "p", "--headless", "--gps-skip">>,
    <<"--profile", "p", "--report", "--headless">>,
    <<"--profile", "p", "--headless", "--report">>,
    <<"--profile", "p", "--headless", "--report", "out.txt">>,
    <<"-p", "p", "--headless", "-r", "out.txt", "-g", "40,-74">>,
    <<"-p", "p", "--headless", "-c", "K", "--on-collision", "replace", "-l", "debug">>,
    <<"-p", "p", "-s", "r", "-d", "D", "--headless">>,
    <<"--help">>,
    <<"--headless">>,
    <<"--profile", "q", "--headless">>,
    <<"--profile", "p">> }

\* the source of the run of main: a video with its sidecar, and a picture
MainSources ==
  { <<"r", "/", "a", ".", "m", "p", "4">>,
    <<"r", "/", "a", ".", "s", "r", "t">>,
    <<"r", "/", "b", ".", "j", "p", "g">> }

\* main is started; every source file is readable, nothing is at the
\* destination and no filesystem call fails
InitMain ==
  /\ pc = "main"
  /\ profile = <<>>
  /\ \E argv \in MainArgvs, loaded \in MainProfiles, hasGps \in SUBSET MainSources :
       env = [dates |-> [q \in MainSources |-> 0], tz |-> 0,
              argv |-> argv, profiles |-> [n \in {"p"} |-> loaded], hasGps |-> hasGps]
  /\ tree = (<<"r">> :> <<FileEntry(<<"a", ".", "m", "p", "4">>),
                          FileEntry(<<"a", ".", "s", "r", "t">>),
                          FileEntry(<<"b", ".", "j", "p", "g">>)>>)
  /\ unreadable = {}
  /\ files = <<>>
  /\ fileGroups = <<>>
  /\ fsys = [q \in MainSources |-> "bytes"]
  /\ dirs = {<<"r">>}
  /\ faults = NoFaults
  /\ err = "none"
  /\ ops = <<>>
  /\ grp = NoFrame
  /\ fa = NoFrame
  /\ pf = NoFrame
  /\ run = NoFrame
  /\ ed = NoFrame
  /\ logger = NoFrame
  /\ fsys0 = fsys

\* main and the run it starts, where nothing fails
NextMain ==
  \/ MainArgs
  \/ MainHeadless
  \/ MainPrompt
  \/ MainValidate
  \/ MainRunImport
  \/ RunScan
  \/ RunExtractDate
  \/ PfgEnter
  \/ PfgReplace
  \/ PfgRename
  \/ FaNotFound
  \/ PfgCallProcessFile
  \/ PfMkdir
  \/ PfCopy
  \/ PfRename
  \/ PfgPush
  \/ PfgReturn
  \/ RunLogResults
  \/ RunSummary

SpecMain == InitMain /\ [][NextMain]_vars

(***************************************************************************)
(* Properties of the GPS coordinates of a headless run (C22)               *)
(***************************************************************************)

\* the run is headless with --gps and coordinates that parse, without
\* --gps-skip
GpsAsked ==
  /\ Args.headless
  /\ TruthyName(Args.gpsCoordinates)
  /\ "error" \notin DOMAIN ParseCoordinateString(Args.gpsCoordinates)
  /\ ~Args.gpsSkip

\* writeGpsData was called for the path with the coordinates
GpsWritten(path, coordinates) ==
  \E i \in 1..Len(ops) :
    ops[i].op = "writeGpsData" /\ ops[i].path = path /\ ops[i].to = coordinates

\* C22: the coordinates of --gps reach the import: the profile runImport is
\* called with asks for them, and at the end of the run writeGpsData was
\* called with them for every transferred file that holds no GPS data.
C22_GpsReachesImport ==
  GpsAsked =>
    /\ Validated => /\ WantsGps(profile)
                    /\ profile.gpsCoordinates = ParseCoordinateString(Args.gpsCoordinates)
    /\ pc = "done" /\ run.inUse =>
         \A i \in 1..Len(run.transfers) :
           run.transfers[i].sourcePath \notin env.hasGps =>
             GpsWritten(run.transfers[i].targetPath,
                        ParseCoordinateString(Args.gpsCoordinates))

\* what the code does: no run that main starts ever calls writeGpsData,
\* whatever the arguments and the loaded profile ask for
C22_MainNeverWritesGps == \A i \in 1..Len(ops) : ops[i].op # "writeGpsData"

(***************************************************************************)
(* Properties of the --report option (C23)                                 *)
(***************************************************************************)

\* the options parseArgs knows
OptionNames ==
  {"--help", "-h", "--headless", "--profile", "-p", "--source", "-s",
   "--destination", "-d", "--camera", "-c", "--on-collision", "--log-level",
   "-l", "--report", "-r", "--gps", "-g", "--gps-skip"}

\* the place of --report on the command line, 0 where it is not given
ReportAt ==
  IF \E i \in 1..Len(env.argv) : env.argv[i] \in {"--report", "-r"}
    THEN CHOOSE i \in 1..Len(env.argv) : env.argv[i] \in {"--report", "-r"}
    ELSE 0

\* --report is given without a file name: it is the last argument or an
\* option follows it
ReportIsBare ==
  /\ ReportAt > 0
  /\ ReportAt = Len(env.argv) \/ env.argv[ReportAt + 1] \in OptionNames

\* --report is given with a file name
ReportIsNamed ==
  /\ ReportAt > 0
  /\ ReportAt < Len(env.argv)
  /\ env.argv[ReportAt + 1] \notin OptionNames

\* the run of main has come to its end with files transferred
RunEnded == pc = "done" /\ run.inUse /\ Len(run.transfers) > 0

\* C23: after a bare --report a report is saved at the end of the run, after
\* --report with a name it is saved under that name, and --headless after a
\* bare --report is still parsed as the option.
C23_ReportOption ==
  /\ ReportIsBare /\ RunEnded => Len(logger.saved) = 1
  /\ ReportIsNamed /\ RunEnded => logger.saved = <<env.argv[ReportAt + 1]>>
  /\ ReportIsBare /\ ReportAt < Len(env.argv) /\ env.argv[ReportAt + 1] = "--headless" =>
       Args.headless /\ Args.report = BareReport

\* what does hold: a report with a name is saved under it, and without
\* --report none is saved
C23_HoldsForNamedReport ==
  /\ ReportIsNamed /\ RunEnded => logger.saved = <<env.argv[ReportAt + 1]>>
  /\ ReportAt = 0 /\ RunEnded => logger.saved = <<>>

\* what the code does after a bare --report: an option that follows is
\* taken as the file name, and where nothing follows no report is saved
C23_BareReportInCode ==
  /\ ReportIsBare /\ ReportAt < Len(env.argv) => Args.report = Given(env.argv[ReportAt + 1])
  /\ ReportIsBare /\ ReportAt = Len(env.argv) /\ RunEnded => logger.saved = <<>>

(***************************************************************************)
(* Properties of a move that fails half-way (C24)                          *)
(***************************************************************************)

\* the content the source had when processFile was called is at the path
ContentAt(path) == path \in DOMAIN fsys /\ fsys[path] = fsys0[pf.sourcePath]

\* C24: at every step of processFile in move mode, failures included, the
\* complete content of the file is at the source path or at the target
\* path; the source is unlinked only after a copy that succeeded, and after
\* a copy that failed the source is as it was.
C24_NoDataLossOnMove ==
  (pf.inUse /\ ~pf.copyFiles /\ pf.sourcePath \in DOMAIN fsys0) =>
    /\ ContentAt(pf.sourcePath) \/ ContentAt(pf.targetPath)
    /\ \A i \in OpsOf("unlink") :
         \E j \in OpsOf("copyFile") : j < i /\ ops[j].result = "ok"
    /\ (\E j \in OpsOf("copyFile") : ops[j].result # "ok") =>
         ContentAt(pf.sourcePath) /\ OpsOf("unlink") = {}

\* the copy of the fallback has failed and has left a part of the data at
\* the target: the source is whole
C24_Witness ==
  /\ pf.inUse
  /\ ~pf.copyFiles
  /\ pc = "throw"
  /\ \E i \in OpsOf("rename") : ops[i].result = "EXDEV"
  /\ \E j \in OpsOf("copyFile") : ops[j].result # "ok"
  /\ pf.targetPath \in DOMAIN fsys
  /\ fsys[pf.targetPath] = "partial"
  /\ ContentAt(pf.sourcePath)

(***************************************************************************)
(* Properties of what the groups of a scan share (C25)                     *)
(***************************************************************************)

\* the groups g and h of the scan have a file in common
GroupsShare(g, h) ==
  \E i \in 1..Len(fileGroups[g].files), j \in 1..Len(fileGroups[h].files) :
    fileGroups[g].files[i] = fileGroups[h].files[j]

\* C25: no source path is in the files of two groups of the scan, and the
\* files of the groups the run has not come to yet are as they were when
\* the run began.
C25_GroupsShareNothing ==
  run.inUse =>
    /\ \A g, h \in 1..Len(fileGroups) : g # h => ~GroupsShare(g, h)
    /\ \A h \in 1..Len(fileGroups) :
         h > run.gi =>
           \A j \in 1..Len(fileGroups[h].files) :
             LET file == fileGroups[h].files[j]
             IN file \in DOMAIN fsys0 =>
                  file \in DOMAIN fsys /\ fsys[file] = fsys0[file]

\* what does hold: the groups that share no file with an earlier group find
\* their files as they were when the run began
C25_HoldsForGroupsThatShareNothing ==
  run.inUse =>
    \A h \in 1..Len(fileGroups) :
      (h > run.gi /\ \A g \in 1..(h - 1) : ~GroupsShare(g, h)) =>
        \A j \in 1..Len(fileGroups[h].files) :
          LET file == fileGroups[h].files[j]
          IN file \in DOMAIN fsys0 =>
               file \in DOMAIN fsys /\ fsys[file] = fsys0[file]

(***************************************************************************)
(* Properties of the shape of a group (C26)                                *)
(***************************************************************************)

\* the files of the group are its primary followed by its companions
PrimaryThenCompanions(group) == group.files = <<group.primaryFile>> \o group.companionFiles

\* no path is twice in the sequence
NoDuplicates(paths) == \A i, j \in 1..Len(paths) : i # j => paths[i] # paths[j]

\* no extension is in both lists of the profile
DisjointClasses ==
  \A i \in 1..Len(profile.primaryExtensions) :
    ~Includes(profile.companionExtensions, profile.primaryExtensions[i])

\* C26: every group of the scan is its primary followed by its companions,
\* the primary is not among the companions and no path is twice in the
\* files of the group, whatever the two extension lists are.
C26_GroupShape ==
  Scanned =>
    \A g \in 1..Len(fileGroups) :
      /\ PrimaryThenCompanions(fileGroups[g])
      /\ fileGroups[g].primaryFile \notin SeqRange(fileGroups[g].companionFiles)
      /\ NoDuplicates(fileGroups[g].files)

\* what does hold: the files are the primary followed by the companions for
\* all lists, and the rest where no extension is in both lists
C26_HoldsForDisjointClasses ==
  Scanned =>
    /\ \A g \in 1..Len(fileGroups) : PrimaryThenCompanions(fileGroups[g])
    /\ DisjointClasses => C26_GroupShape

(***************************************************************************)
(* Properties of a group whose transfer fails (C27)                        *)
(***************************************************************************)

\* processFileGroup is throwing: the transfer of its file grp.i has failed
GroupFails == pc = "throw" /\ grp.inUse

\* the file was transferred to the target and is still there
StaysTransferred(result) ==
  /\ result.targetPath \in DOMAIN fsys
  /\ fsys[result.targetPath] = fsys0[result.sourcePath]
  /\ grp.transferMode = "move" => result.sourcePath \notin DOMAIN fsys
  /\ grp.transferMode = "copy" => result.sourcePath \in DOMAIN fsys

\* no filesystem call of the group was made for the file
NotAttempted(k) ==
  \A n \in 1..Len(ops) :
    "call" \in DOMAIN ops[n] => ops[n].call # <<run.gi, k>>

\* C27: when the transfer of file i of a group fails, the files before it
\* stay transferred, the files after it are not attempted and are as they
\* were, and the results of the group are not returned.
C27_FailureWithoutRollback ==
  GroupFails =>
    /\ Len(grp.results) = grp.i - 1
    /\ \A k \in 1..Len(grp.results) :
         /\ grp.results[k].sourcePath = grp.group.files[k]
         /\ StaysTransferred(grp.results[k])
    /\ \A k \in (grp.i + 1)..Len(grp.group.files) :
         /\ NotAttempted(k)
         /\ grp.group.files[k] \in DOMAIN fsys
         /\ fsys[grp.group.files[k]] = fsys0[grp.group.files[k]]
    /\ \A t \in 1..Len(run.transfers), k \in 1..Len(grp.results) :
         run.transfers[t] # grp.results[k]

\* the error of the group is caught by the run, which takes no result of it
C27_NoResultsReturned ==
  [][GroupFails => pc' = "run_loop" /\ run'.transfers = run.transfers /\ fsys' = fsys]_vars

\* the second file of a group has failed after the first was moved
C27_Witness ==
  /\ GroupFails
  /\ grp.i = 2
  /\ Len(grp.group.files) = 2
  /\ grp.transferMode = "move"
  /\ grp.results[1].sourcePath \notin DOMAIN fsys
  /\ grp.results[1].targetPath \in DOMAIN fsys

(***************************************************************************)
(* Properties of the counts of the run (C28)                               *)
(***************************************************************************)

\* the files of the groups of the scan: the group and the place in it
FoundFiles ==
  UNION {{<<g, k>> : k \in 1..Len(fileGroups[g].files)} : g \in 1..Len(fileGroups)}

\* the files whose copy or rename to the destination succeeded
TransferredFiles ==
  {c \in FoundFiles :
     \E n \in 1..Len(ops) :
       /\ ops[n].op \in {"copyFile", "rename"}
       /\ ops[n].result = "ok"
       /\ ops[n].call = c}

\* the run has logged its summary
RunSummarised == pc = "done" /\ run.inUse

\* C28: at the end of the run errors is the number of files that were not
\* transferred, the files processed without error are the files that were
\* transferred, and processed never exceeds the number of files found.
C28_CountsAreExact ==
  /\ run.inUse => run.processed <= Cardinality(FoundFiles)
  /\ RunSummarised =>
       /\ run.errors = Cardinality(FoundFiles \ TransferredFiles)
       /\ run.processed - run.errors = Cardinality(TransferredFiles)

\* what does hold: every file found is counted once as processed, and
\* errors is the number of files of the groups that returned no results, the
\* files transferred before the failure included
C28_CountsAreByGroup ==
  /\ run.inUse => run.processed <= Cardinality(FoundFiles)
  /\ RunSummarised =>
       /\ run.processed = Cardinality(FoundFiles)
       /\ run.errors = Cardinality(FoundFiles) - Len(run.transfers)
\* ---------------------------------------------------------------------
\* C29: extractFileDate and an exiftool that does not exit
\* ---------------------------------------------------------------------

\* extractFileDate awaits the 'close' event of exiftool
AwaitsExiftool == pc = "ed_await_close"

\* the call asked exiftool for the date
ExiftoolAsked ==
  \E n \in 1..Len(ops) : ops[n].op = "exiftool"

\* the call reached the modification-time stage or returned a date
ReachedNextStage ==
  \/ pc \in {"ed_stat", "ed_return"}
  \/ \E n \in 1..Len(ops) : ops[n].op = "fs.stat"

\* C29: extractFileDate returns for every behaviour of exiftool: the wait
\* for the subprocess is bounded by a timeout, so the call is never left
\* waiting for a 'close' event that does not come, and goes on to the
\* modification-time stage
C29_ExiftoolWaitIsBounded == ~AwaitsExiftool

\* C29, for an exiftool that exits: the call that asked exiftool and is
\* over has returned a date, reached the modification-time stage, or was
\* ended by the uncaught 'error' event
C29_HoldsWhereExiftoolExits ==
  (ExiftoolAsked /\ env.exiftool.outcome # "never exits") =>
    (ReachedNextStage \/ pc \in {"uncaught", "throw"})

\* ---------------------------------------------------------------------
\* The Logger on its own: any sequence of logFileTransfer calls
\* ---------------------------------------------------------------------

\* the longest sequence of calls
MaxTransfers == 3

\* src/src/logger.js 114-145, called as in src/test/logger.test.js 86-96
LoggerLogFileTransfer ==
  /\ pc = "logger"
  /\ Len(logger.files) < MaxTransfers
  /\ \E fileSize \in {512, 1024, 2048}, success \in BOOLEAN, isCompanion \in BOOLEAN :
       logger' = LogFileTransfer(logger, "/source/1.jpg", "/target/1.jpg", "copy",
                                 fileSize, success, isCompanion)
  /\ UNCHANGED <<varsScan, pc, ed, run, varsFs, err, ops, grp, fa, pf>>

InitLogger ==
  /\ pc = "logger"
  /\ logger = NewLogger("info", Null)
  /\ profile = <<>>
  /\ tree = <<>>
  /\ unreadable = {}
  /\ files = <<>>
  /\ fileGroups = <<>>
  /\ fsys = <<>>
  /\ dirs = {}
  /\ faults = NoFaults
  /\ fsys0 = fsys
  /\ err = "none"
  /\ ops = <<>>
  /\ grp = NoFrame
  /\ fa = NoFrame
  /\ pf = NoFrame
  /\ run = NoFrame
  /\ ed = NoFrame
  /\ env = NoEnv

NextLogger == LoggerLogFileTransfer

SpecLogger == InitLogger /\ [][NextLogger]_vars

\* ---------------------------------------------------------------------
\* C30: the accounting of the Logger
\* ---------------------------------------------------------------------

RECURSIVE SuccessfulSize(_, _)
\* the sizes of the entries from i on that were recorded as successful
SuccessfulSize(entries, i) ==
  IF i > Len(entries) THEN 0
  ELSE (IF entries[i].success THEN entries[i].fileSize ELSE 0)
       + SuccessfulSize(entries, i + 1)

\* every recorded entry is counted once, as processed or as an error, and
\* the transferred size is that of the successful entries
EntriesAccounted ==
  /\ logger.summary.processedFiles + logger.summary.errorFiles = Len(logger.files)
  /\ logger.summary.transferredSize = SuccessfulSize(logger.files, 1)

\* the summary of the report covers every file found, and its 'Failed'
\* figure is the error count of the run
ReportMatchesRun ==
  /\ logger.summary.processedFiles + logger.summary.errorFiles
       = logger.summary.totalFiles
  /\ logger.summary.errorFiles = run.errors

\* C30: after any sequence of logFileTransfer calls processedFiles plus
\* errorFiles is the number of recorded entries and transferredSize is the
\* sum of the sizes of the successful ones; at the end of a run of
\* runImport processedFiles plus errorFiles is totalFiles and the 'Failed'
\* figure of the report is the number of files the run counted as errors
C30_LoggerAccounting ==
  /\ logger.inUse => EntriesAccounted
  /\ RunSummarised => ReportMatchesRun

\* C30, the part about logFileTransfer alone
C30_HoldsForLogFileTransfer == logger.inUse => EntriesAccounted

\* C30, for a run in which no group failed
C30_HoldsWhereNoGroupFails ==
  (RunSummarised /\ run.errors = 0) => ReportMatchesRun

\* C30: a failed group is logged as one error message and no entry
C30_FailedGroupsAreNotRecorded ==
  RunSummarised =>
    /\ logger.summary.errorFiles = 0
    /\ Len(logger.files) = logger.summary.processedFiles
    /\ logger.summary.processedFiles + run.errors = logger.summary.totalFiles

====
